---- MODULE Spec2Model ----
(***************************************************************************)
(* Botium connector for the OpenAI Responses API                           *)
(* (src/src/connectorResponsesApi.js, class                                *)
(* BotiumConnectorChatGPTResponsesAPI).                                    *)
(*                                                                         *)
(* The connector object, the UserSays turns running on it, the provider    *)
(* calls in flight (files.create, responses.create, files.del), the timer  *)
(* queue that carries the outbound message (setTimeout 0) and the sink     *)
(* queueBotSays.  One action is one run-to-completion step of the JS event *)
(* loop: the code between two awaits, or the settling of a remote call.    *)
(***************************************************************************)
EXTENDS Naturals, Sequences, FiniteSets, TLC

(***************************************************************************)
(* Bounds of the model.                                                    *)
(***************************************************************************)
\* UserSays calls per behaviour
MaxTurns == 2
\* UserSays calls per behaviour when only the turn linkage is followed
MaxLinkTurns == 3
\* attachments (msg.media) per inbound message
MaxMedia == 2
\* items in the output array of a primary response
MaxCalls == 2
\* characters after the head of a string handed to maskBase64InObject
MaxChars == 104
\* characters of the second run of such a string
MaxTail == 12

\* turn slots: UserSays invocations that may be alive at the same time
Turns == {1, 2}

(***************************************************************************)
(* JavaScript values.  A value carries its type so that Array.isArray,     *)
(* typeof, _.isNil and truthiness are computed and not assumed.            *)
(***************************************************************************)
Undefined == [t |-> "undefined"]
Null == [t |-> "null"]
Str(s) == [t |-> "string", v |-> s]
Num(n) == [t |-> "number", v |-> n]
Arr(q) == [t |-> "array", v |-> q]
Obj(f) == [t |-> "object", v |-> f]

\* JS truthiness (the `x || y`, `if (x)` tests)
Truthy(x) ==
  CASE x.t = "undefined" -> FALSE
    [] x.t = "null" -> FALSE
    [] x.t = "string" -> x.v # ""
    [] x.t = "number" -> x.v # 0
    [] OTHER -> TRUE

\* typeof x === 'object' (true of arrays and of null too)
TypeofObject(x) == x.t \in {"object", "array", "null"}

IsArray(x) == x.t = "array"

\* lodash _.isNil
IsNil(x) == x.t \in {"undefined", "null"}

\* property read obj.key: undefined when the property is missing
Get(x, key) ==
  IF x.t = "object" /\ key \in DOMAIN x.v THEN x.v[key] ELSE Undefined

\* String(x)
String(x) ==
  CASE x.t = "string" -> x.v
    [] x.t = "number" -> ToString(x.v)
    [] x.t = "undefined" -> "undefined"
    [] OTHER -> "null"

\* s.toLowerCase(), on the strings of the model that hold capital letters
toLowerCase(s) ==
  CASE s = "UPLOAD" -> "upload"
    [] s = "Upload" -> "upload"
    [] s = "BASE64" -> "base64"
    [] s = "Inline" -> "inline"
    [] OTHER -> s

(***************************************************************************)
(* Texts a provider response can carry in output_text, and JSON.parse on   *)
(* them.                                                                   *)
(***************************************************************************)
TextEmpty == ""
TextPlain == "hello"
TextNumber == "42"
TextArray == "[]"
TextObject == "{}"
TextSix ==
  "{\"messageText\":\"hi\",\"buttons\":[{\"text\":\"Click me\",\"payload\":\"button1\"}],\"media\":[],\"attachments\":[{\"name\":\"a.txt\",\"mimeType\":\"text/plain\",\"base64\":\"YQ==\"}],\"cards\":[],\"intent\":\"greeting\"}"

OutputTexts == {TextEmpty, TextPlain, TextNumber, TextArray, TextObject, TextSix}

SixPayload ==
  Obj([messageText |-> Str("hi"),
       buttons |-> Arr(<<[text |-> "Click me", payload |-> "button1"]>>),
       media |-> Arr(<<>>),
       attachments |-> Arr(<<[name |-> "a.txt", mimeType |-> "text/plain", base64 |-> "YQ=="]>>),
       cards |-> Arr(<<>>),
       intent |-> Str("greeting")])

SyntaxError == [t |-> "throw", v |-> "SyntaxError"]

\* JSON.parse: the parsed value, or the SyntaxError it throws
JSONparse(s) ==
  CASE s = TextSix -> SixPayload
    [] s = TextObject -> Obj(<<>>)
    [] s = TextArray -> Arr(<<>>)
    [] s = TextNumber -> Num(42)
    [] OTHER -> SyntaxError

(***************************************************************************)
(* Inbound attachments (msg.media).  A MIME type is kept as major/minor so *)
(* that startsWith('image/') and startsWith('text/') are tests on major;   *)
(* a name is kept as stem and extension for the /\.(txt|...)$/i test.      *)
(***************************************************************************)
NoMime == [major |-> "", minor |-> ""]
Mime(a, b) == [major |-> a, minor |-> b]
NoBuffer == "null"
Bytes == "botium"

Attachment(stem, ext, mime, buf) ==
  [name |-> [stem |-> stem, ext |-> ext], mimeType |-> mime, buffer |-> buf]

PngImage == Attachment("botium", "png", Mime("image", "png"), Bytes)
TxtFile == Attachment("botium", "txt", Mime("text", "plain"), Bytes)
PdfFile == Attachment("botium", "pdf", Mime("application", "pdf"), Bytes)
EmptyImage == Attachment("empty", "png", Mime("image", "png"), NoBuffer)
BareTxt == Attachment("notes", "txt", NoMime, Bytes)
BareBin == Attachment("blob", "bin", NoMime, Bytes)

Attachments == {PngImage, TxtFile, PdfFile, EmptyImage, BareTxt, BareBin}

\* further attachments: a second image; texts by a text/ MIME type other
\* than text/plain and by a structured-text MIME type, under names without
\* a text extension; a text extension under a MIME type that is no text;
\* an image extension without MIME type; a text file without data
JpgImage == Attachment("photo", "jpg", Mime("image", "jpeg"), Bytes)
HtmlFile == Attachment("page", "html", Mime("text", "html"), Bytes)
JsonFile == Attachment("data", "bin", Mime("application", "json"), Bytes)
PdfAsTxt == Attachment("scan", "txt", Mime("application", "pdf"), Bytes)
BarePng == Attachment("icon", "png", NoMime, Bytes)
EmptyTxt == Attachment("empty", "txt", Mime("text", "plain"), NoBuffer)

ContentAttachments ==
  Attachments \cup {JpgImage, HtmlFile, JsonFile, PdfAsTxt, BarePng, EmptyTxt}

RECURSIVE SeqsUpTo(_, _)
\* all sequences over S of length at most n
SeqsUpTo(S, n) ==
  IF n = 0 THEN {<<>>}
  ELSE LET shorter == SeqsUpTo(S, n - 1) IN
       shorter \cup {Append(q, x) : q \in {r \in shorter : Len(r) = n - 1}, x \in S}

MessageTexts == {"", "What is Botium?"}

\* inbound messages of the turn machine: an image (uploaded or inlined), an
\* inlined text file and an attachment without data, in any order
MediaMessages ==
  [messageText : MessageTexts,
   media : SeqsUpTo({PngImage, TxtFile, EmptyImage}, MaxMedia)]

\* inbound messages with attachments of every kind, in any order
InboundMessages ==
  [messageText : MessageTexts, media : SeqsUpTo(Attachments, MaxMedia)]

\* inbound messages with the further attachments too
ContentMessages ==
  [messageText : MessageTexts, media : SeqsUpTo(ContentAttachments, MaxMedia)]

\* inbound messages with at most one attachment, of every kind
SingleMessages ==
  {[messageText |-> "What is Botium?", media |-> m] : m \in SeqsUpTo(Attachments, 1)}

isImage(mimeType) == mimeType.major = "image"

isStructuredTextMime(mimeType) ==
  /\ mimeType.major = "application"
  /\ mimeType.minor \in {"json", "xml", "yaml", "x-yaml", "csv"}

isTextByMime(mimeType) == mimeType.major = "text" \/ isStructuredTextMime(mimeType)

isTextByName(name) == name.ext \in {"txt", "md", "json", "xml", "yaml", "yml", "csv"}

\* isText true of every attachment
isTextAny(a) == TRUE

\* isText with the name tested whatever the MIME type
isTextNameWins(a) == isTextByMime(a.mimeType) \/ isTextByName(a.name)

isText(a) == isTextByMime(a.mimeType) \/ (a.mimeType = NoMime /\ isTextByName(a.name))

InputText(text) == [type |-> "input_text", text |-> text]
InputImageUrl(mimeType, buffer) ==
  [type |-> "input_image", image_url |-> <<"data:", mimeType, ";base64,", buffer>>]
InputImageFile(id) == [type |-> "input_image", file_id |-> id]
\* the label of line 606 around the name and the decoded bytes
InlineText(a) ==
  InputText("File attachment (prepared, no need to download or read out)\nname:\n"
              \o a.name.stem \o "." \o a.name.ext \o "\nContent:\n" \o a.buffer)

RECURSIVE buildUserContentUnshift(_, _, _, _)
\* buildUserContent putting the fragment of a text attachment in front of
\* the content
buildUserContentUnshift(media, i, content, mode) ==
  IF i > Len(media) THEN [content |-> content, idx |-> i, upload |-> FALSE]
  ELSE LET a == media[i] IN
    IF a.buffer = NoBuffer THEN buildUserContentUnshift(media, i + 1, content, mode)
    ELSE IF isImage(a.mimeType) THEN
      IF mode = "base64"
      THEN buildUserContentUnshift(media, i + 1,
             Append(content, InputImageUrl(a.mimeType, a.buffer)), mode)
      ELSE [content |-> content, idx |-> i, upload |-> TRUE]
    ELSE IF isText(a) THEN
      buildUserContentUnshift(media, i + 1, <<InlineText(a)>> \o content, mode)
    ELSE buildUserContentUnshift(media, i + 1, content, mode)

RECURSIVE buildUserContent(_, _, _, _)
\* The attachment loop of buildUserContent from attachment i on, up to the
\* first await (an upload) or the end of the loop.
buildUserContent(media, i, content, mode) ==
  IF i > Len(media) THEN [content |-> content, idx |-> i, upload |-> FALSE]
  ELSE LET a == media[i] IN
    IF a.buffer = NoBuffer THEN buildUserContent(media, i + 1, content, mode)
    ELSE IF isImage(a.mimeType) THEN
      IF mode = "base64"
      THEN buildUserContent(media, i + 1,
             Append(content, InputImageUrl(a.mimeType, a.buffer)), mode)
      ELSE [content |-> content, idx |-> i, upload |-> TRUE]
    ELSE IF isText(a) THEN
      buildUserContent(media, i + 1, Append(content, InlineText(a)), mode)
    ELSE buildUserContent(media, i + 1, content, mode)

(***************************************************************************)
(* Provider responses (openai.responses.create).                           *)
(***************************************************************************)
ArgsRows == "{\"data\":[[\"n\",\"square\"],[2,4]]}"
ArgsCubes == "{\"data\":[[\"n\",\"cube\"],[2,8]]}"
ArgsNoData == "{\"sheet\":\"Sheet1\"}"
ArgsBroken == "{\"data\":[["

\* JSON.parse on the arguments of a function call
ArgsParse(s) ==
  CASE s = ArgsRows -> Obj([data |-> Arr(<<<<"n", "square">>, <<2, 4>>>>)])
    [] s = ArgsCubes -> Obj([data |-> Arr(<<<<"n", "cube">>, <<2, 8>>>>)])
    [] s = ArgsNoData -> Obj([sheet |-> Str("Sheet1")])
    [] OTHER -> SyntaxError

ItemKinds == {"excel", "broken", "other"}

\* every kind of output item: two spreadsheet calls with different rows, one
\* with arguments that are not JSON, one without rows, one of another tool
ToolKinds == ItemKinds \cup {"cubes", "nodata"}

\* the k-th output item of a response, of the given kind
Item(kind, k) ==
  [type |-> "function_call",
   name |-> IF kind = "other" THEN "web_lookup" ELSE "createExcelFile",
   call_id |-> k,
   arguments |->
     CASE kind = "broken" -> ArgsBroken
       [] kind = "cubes" -> ArgsCubes
       [] kind = "nodata" -> ArgsNoData
       [] OTHER -> ArgsRows]

Output(kinds) == [k \in 1..Len(kinds) |-> Item(kinds[k], k)]

PrimaryOutputs == {Output(kinds) : kinds \in SeqsUpTo(ItemKinds, MaxCalls)}

ToolOutputs == {Output(kinds) : kinds \in SeqsUpTo(ToolKinds, MaxCalls)}

\* a follow-up response may ask for tools again
FollowUpOutputs == {Output(<<>>), Output(<<"excel">>)}

Response(id, text, output) == [id |-> id, output_text |-> text, output |-> output]

\* identifiers the provider hands out, fresh per call: of the primary and the
\* follow-up response of the n-th turn, and of the i-th file uploaded in it
PrimaryId(n) == 2 * n - 1
FollowUpId(n) == 2 * n
FileId(n, i) == 10 * n + i
NoId == 0

ErrorMessages == {"429 rate limit"}

(***************************************************************************)
(* createExcelFile: XLSX serialisation of the rows, as base64.             *)
(***************************************************************************)
XlsxBase64 == "UEsDBBQAAAAIAA=="
XlsxBase64Cubes == "UEsDBBQAAAAIAB=="

\* XLSX.write(...).toString('base64') of the workbook made of the rows
XLSXwrite(data) ==
  IF data = Arr(<<<<"n", "cube">>, <<2, 8>>>>) THEN XlsxBase64Cubes ELSE XlsxBase64

\* createExcelFile making a workbook of whatever it is given
createExcelFileAnyData(data) == [ok |-> TRUE, base64 |-> XLSXwrite(data)]

createExcelFile(data) ==
  IF IsArray(data)
  THEN [ok |-> TRUE, base64 |-> XLSXwrite(data)]
  ELSE [ok |-> FALSE, message |-> "Failed to create Excel file: bad rows"]

\* the try block of one createExcelFile function call: parse, generate
executeCall(item) ==
  LET args == ArgsParse(item.arguments) IN
  IF args = SyntaxError THEN [ok |-> FALSE]
  ELSE createExcelFile(Get(args, "data"))

ExcelAttachment(base64) ==
  [name |-> "excel.xlsx",
   mimeType |-> "application/vnd.openxmlformats-officedocument.spreadsheetml.sheet",
   base64 |-> base64]

\* the tool result carrying the generated file, as in the lines commented out
FunctionCallOutputWithFile(item) ==
  [type |-> "function_call_output", call_id |-> item.call_id,
   output |-> "{\"file_base64\":\"" \o XlsxBase64 \o "\"}"]

FunctionCallOutput(item) ==
  [type |-> "function_call_output", call_id |-> item.call_id, output |-> ""]

RECURSIVE scanOutputNewestFirst(_, _, _, _)
\* the forEach putting each new attachment in front of the earlier ones
scanOutputNewestFirst(output, i, atts, outs) ==
  IF i > Len(output) THEN [excelAttachments |-> atts, functionCallOutputs |-> outs]
  ELSE LET item == output[i] IN
    IF item.type = "function_call" /\ item.name = "createExcelFile"
    THEN LET r == executeCall(item) IN
         IF r.ok
         THEN scanOutputNewestFirst(output, i + 1,
                                    <<ExcelAttachment(r.base64)>> \o atts,
                                    Append(outs, FunctionCallOutput(item)))
         ELSE scanOutputNewestFirst(output, i + 1, atts, outs)
    ELSE scanOutputNewestFirst(output, i + 1, atts, outs)

RECURSIVE scanOutput(_, _, _, _)
\* response.output.forEach of extractExcelFilesFromResponse
scanOutput(output, i, atts, outs) ==
  IF i > Len(output) THEN [excelAttachments |-> atts, functionCallOutputs |-> outs]
  ELSE LET item == output[i] IN
    IF item.type = "function_call" /\ item.name = "createExcelFile"
    THEN LET r == executeCall(item) IN
         IF r.ok
         THEN scanOutput(output, i + 1, Append(atts, ExcelAttachment(r.base64)),
                         Append(outs, FunctionCallOutput(item)))
         ELSE scanOutput(output, i + 1, atts, outs)
    ELSE scanOutput(output, i + 1, atts, outs)

\* parseOutput with the strict-mode test lost: JSON is always tried
parseOutputAlwaysJson(responseToUse, strict) ==
  LET outputText == responseToUse.output_text
      parsed == JSONparse(outputText) IN
  IF outputText = "" THEN [assistantText |-> Str(""), botiumJson |-> Null]
  ELSE IF parsed # SyntaxError /\ Truthy(parsed) /\ TypeofObject(parsed)
  THEN [assistantText |->
          IF Truthy(Get(parsed, "messageText"))
          THEN Get(parsed, "messageText") ELSE Str(outputText),
        botiumJson |-> parsed]
  ELSE [assistantText |-> Str(outputText), botiumJson |-> Null]

\* parseOutput with the catch block of the JSON parse left empty
parseOutputNoFallback(responseToUse, strict) ==
  LET outputText == responseToUse.output_text
      parsed == JSONparse(outputText) IN
  IF outputText = "" THEN [assistantText |-> Str(""), botiumJson |-> Null]
  ELSE IF ~strict THEN [assistantText |-> Str(outputText), botiumJson |-> Null]
  ELSE IF parsed = SyntaxError THEN [assistantText |-> Str(""), botiumJson |-> Null]
  ELSE IF Truthy(parsed) /\ TypeofObject(parsed)
  THEN [assistantText |->
          IF Truthy(Get(parsed, "messageText"))
          THEN Get(parsed, "messageText") ELSE Str(outputText),
        botiumJson |-> parsed]
  ELSE [assistantText |-> Str(outputText), botiumJson |-> Null]

(***************************************************************************)
(* Parsing of the response used (UserSays, output_text to assistantText    *)
(* and botiumJson).                                                        *)
(***************************************************************************)
parseOutput(responseToUse, strict) ==
  LET outputText == responseToUse.output_text IN
  IF outputText = "" THEN [assistantText |-> Str(""), botiumJson |-> Null]
  ELSE IF strict THEN
    LET parsed == JSONparse(outputText) IN
    IF parsed = SyntaxError
    THEN [assistantText |-> Str(outputText), botiumJson |-> Null]
    ELSE IF Truthy(parsed) /\ TypeofObject(parsed)
    THEN [assistantText |->
            IF Truthy(Get(parsed, "messageText"))
            THEN Get(parsed, "messageText") ELSE Str(outputText),
          botiumJson |-> parsed]
    ELSE [assistantText |-> Str(outputText), botiumJson |-> Null]
  ELSE [assistantText |-> Str(outputText), botiumJson |-> Null]

(***************************************************************************)
(* maskBase64InObject on a string (lines 118-138), character by character. *)
(* A string is a head, empty or the start of a data URI, followed by runs  *)
(* of one character each: a letter, a digit, a base64 sign, a blank, or a  *)
(* character outside the base64 alphabet.                                  *)
(***************************************************************************)
DataUriHead == "data:image/png;base64,"
Chars == {"a", "7", "+", " ", "!"}
Alphanumeric == {"a", "7"}
Base64Alphabet == {"a", "7", "+"}
Whitespace == {" "}

Run(c, n) == [c |-> c, n |-> n]

\* strings of two runs: at most MaxChars characters after the head, at
\* most MaxTail of them in the second run
Strings ==
  {str \in [head : {"", DataUriHead},
            runs : [c : Chars, n : 0..MaxChars] \X [c : Chars, n : 0..MaxTail]] :
     str.runs[1].n + str.runs[2].n <= MaxChars}

RECURSIVE Repeat(_, _)
Repeat(c, n) == IF n = 0 THEN "" ELSE c \o Repeat(c, n - 1)

RECURSIVE Count(_, _)
\* the characters of the runs that are in the set
Count(runs, set) ==
  IF runs = <<>> THEN 0
  ELSE (IF Head(runs).c \in set THEN Head(runs).n ELSE 0) + Count(Tail(runs), set)

RECURSIVE RenderRuns(_)
RenderRuns(runs) ==
  IF runs = <<>> THEN "" ELSE Repeat(Head(runs).c, Head(runs).n) \o RenderRuns(Tail(runs))

\* the string itself
Render(str) == str.head \o RenderRuns(str.runs)

Placeholder(n) == "[base64_data_masked:" \o ToString(n) \o "_chars]"

\* maskBase64InObject on a string, without the base64 rule
maskStringDataUriOnly(str) ==
  LET base64Part == Count(str.runs, Chars) IN
  IF str.head = DataUriHead /\ base64Part > 50
  THEN "data:" \o "data:image/png" \o ";base64," \o Placeholder(base64Part)
  ELSE Render(str)

maskBase64InString(str) ==
  LET \* obj.split(';base64,')[1].length
      base64Part == Count(str.runs, Chars)
      \* obj.trim().replace(/\s/g, '').length
      trimmed == Len(str.head) + Count(str.runs, Chars \ Whitespace)
      \* /^[A-Za-z0-9+/=]+$/.test(trimmed)
      inAlphabet ==
        /\ str.head = ""
        /\ trimmed > 0
        /\ Count(str.runs, Chars \ (Base64Alphabet \cup Whitespace)) = 0
      \* (trimmed.match(/[A-Za-z0-9]/g) || []).length
      alnum == Count(str.runs, Alphanumeric)
  IN
  IF str.head = DataUriHead /\ base64Part > 50
  THEN \* `data:${obj.split(';')[0]};base64,[...]`
       "data:" \o "data:image/png" \o ";base64," \o Placeholder(base64Part)
  ELSE IF trimmed > 50 /\ inAlphabet /\ 10 * alnum > 8 * trimmed
  THEN Placeholder(Len(str.head) + Count(str.runs, Chars))
  ELSE Render(str)

(***************************************************************************)
(* maskBase64InObject on an object with one key holding a string (lines    *)
(* 168-310): what is stored under the key in the result.                   *)
(***************************************************************************)
FieldKeys == {"buffer", "mediaUri", "file_base64", "output", "output_text", "name"}

\* JSON.parse(value) returns: of the strings of Strings, those that are a
\* number between optional blanks (no string of Strings is a JSON object,
\* array, string or literal)
ParsesAsJson(str) ==
  /\ str.head = ""
  /\ Count(str.runs, {"7"}) > 0
  /\ Count(str.runs, Chars \ {"7", " "}) = 0
  /\ ~(str.runs[1].c = " " /\ str.runs[1].n > 0 /\ str.runs[2].c = " " /\ str.runs[2].n > 0)

maskField(key, str) ==
  LET \* value.length
      length == Len(str.head) + Count(str.runs, Chars)
      \* value.trim().replace(/\s/g, '').length
      trimmed == Len(str.head) + Count(str.runs, Chars \ Whitespace)
      \* /^[A-Za-z0-9+/=]+$/ on the string without its blanks, and on the string
      trimmedInAlphabet ==
        /\ str.head = "" /\ trimmed > 0
        /\ Count(str.runs, Chars \ (Base64Alphabet \cup Whitespace)) = 0
      valueInAlphabet ==
        /\ str.head = "" /\ length > 0
        /\ Count(str.runs, Chars \ Base64Alphabet) = 0
  IN
  CASE key = "buffer" ->
         IF trimmed > 50 /\ trimmedInAlphabet THEN Placeholder(length)
         ELSE IF length > 200
         THEN "[buffer_data_masked:" \o ToString(length) \o "_chars]"
         ELSE maskBase64InString(str)
    [] key = "mediaUri" ->
         \* no string of Strings starts with 'http'
         IF length > 100 /\ valueInAlphabet THEN Placeholder(length)
         ELSE maskBase64InString(str)
    [] key \in {"file_base64", "output", "output_text"} ->
         IF ParsesAsJson(str)
         THEN \* a number: parsed && typeof parsed === 'object' is false
              maskBase64InString(str)
         ELSE IF length > 100 /\ valueInAlphabet THEN Placeholder(length)
         ELSE Render(str)
    [] OTHER -> maskBase64InString(str)

(***************************************************************************)
(* maskBase64InObject on a response object: the output_text key.  Every    *)
(* other string of a response of this model (call ids, names, arguments,   *)
(* the strings inside a parsed payload) is shorter than 51 characters or   *)
(* holds characters outside the base64 alphabet, and is copied.            *)
(***************************************************************************)
\* texts of the model made only of [A-Za-z0-9+/=]
Base64Texts == {"hello", "42"}

JSONstringify(parsed) ==
  CASE parsed = SixPayload -> TextSix
    [] parsed = Obj(<<>>) -> TextObject
    [] parsed = Arr(<<>>) -> TextArray
    [] OTHER -> "null"

maskString(s) ==
  IF Len(s) > 50 /\ s \in Base64Texts
  THEN "[base64_data_masked:" \o ToString(Len(s)) \o "_chars]"
  ELSE s

maskOutputText(value) ==
  LET parsed == JSONparse(value) IN
  IF parsed = SyntaxError
  THEN IF Len(value) > 100 /\ value \in Base64Texts
       THEN "[base64_data_masked:" \o ToString(Len(value)) \o "_chars]"
       ELSE value
  ELSE IF Truthy(parsed) /\ TypeofObject(parsed)
  THEN JSONstringify(parsed)
  ELSE maskString(value)

maskBase64InObject(response) ==
  [response EXCEPT !.output_text = maskOutputText(response.output_text)]

(***************************************************************************)
(* The outbound message (UserSays, lines 664-686): Undefined when nothing  *)
(* is queued.                                                              *)
(***************************************************************************)
\* buildBotMsg with the tool attachments replacing the payload's only when
\* there is at least one
buildBotMsgKeepPayload(responseToUse, assistantText, botiumJson, excelAttachments) ==
  IF Truthy(assistantText) \/ Truthy(botiumJson) THEN
    LET field(key) == Get(botiumJson, key)
        arrayField(key) == IF IsArray(field(key)) THEN field(key) ELSE Undefined
    IN Obj([sender |-> Str("bot"),
            sourceData |-> maskBase64InObject(responseToUse),
            messageText |->
              IF Truthy(botiumJson) THEN field("messageText")
              ELSE IF Truthy(assistantText) THEN assistantText ELSE Undefined,
            buttons |-> IF Truthy(botiumJson) THEN arrayField("buttons") ELSE Undefined,
            media |-> IF Truthy(botiumJson) THEN arrayField("media") ELSE Undefined,
            attachments |->
              IF IsArray(excelAttachments) /\ Len(excelAttachments.v) > 0
              THEN excelAttachments
              ELSE IF Truthy(botiumJson) THEN arrayField("attachments") ELSE Undefined,
            cards |-> IF Truthy(botiumJson) THEN arrayField("cards") ELSE Undefined,
            intent |->
              IF Truthy(botiumJson) /\ ~IsNil(field("intent"))
              THEN field("intent") ELSE Undefined])
  ELSE Undefined

buildBotMsg(responseToUse, assistantText, botiumJson, excelAttachments) ==
  IF Truthy(assistantText) \/ Truthy(botiumJson) THEN
    LET field(key) == Get(botiumJson, key)
        arrayField(key) == IF IsArray(field(key)) THEN field(key) ELSE Undefined
    IN Obj([sender |-> Str("bot"),
            sourceData |-> maskBase64InObject(responseToUse),
            messageText |->
              IF Truthy(botiumJson) THEN field("messageText")
              ELSE IF Truthy(assistantText) THEN assistantText ELSE Undefined,
            buttons |-> IF Truthy(botiumJson) THEN arrayField("buttons") ELSE Undefined,
            media |-> IF Truthy(botiumJson) THEN arrayField("media") ELSE Undefined,
            attachments |->
              IF IsArray(excelAttachments) THEN excelAttachments
              ELSE IF Truthy(botiumJson) THEN arrayField("attachments") ELSE Undefined,
            cards |-> IF Truthy(botiumJson) THEN arrayField("cards") ELSE Undefined,
            intent |->
              IF Truthy(botiumJson) /\ ~IsNil(field("intent"))
              THEN field("intent") ELSE Undefined])
  ELSE Undefined

(***************************************************************************)
(* State.                                                                  *)
(***************************************************************************)
VARIABLES
  caps,                 \* the capabilities handed to the constructor
  openai,               \* this.openai: TRUE when the client exists, FALSE for null
  fileSendMode,         \* this.fileSendMode
  respondAsBotiumJson,  \* this.respondAsBotiumJson
  lastResponseId,       \* this.lastResponseId, NoId for null
  turn,                 \* per slot: the locals and position of one UserSays call
  turnNo,               \* UserSays calls made so far
  timers,               \* setTimeout(..., 0) callbacks not yet run, oldest first
  linked,               \* history: id of the latest successful responses.create
                        \* since construction, Start or Stop (NoId: none)
  probe                 \* the last call of a function that keeps no state
                        \* (Validate, maskBase64InObject): its argument and
                        \* what it returned or threw; NoProbe before any

vars ==
  <<caps, openai, fileSendMode, respondAsBotiumJson, lastResponseId, turn, turnNo,
    timers, linked, probe>>

connector == <<caps, openai, fileSendMode, respondAsBotiumJson>>

NoMessage == [messageText |-> "", media |-> <<>>]

\* a slot before its first UserSays call
IdleTurn ==
  [n |-> 0, pc |-> "idle", msg |-> NoMessage, idx |-> 1, content |-> <<>>,
   uploadedFileIds |-> <<>>, request |-> Null,
   response |-> Null, followUp |-> "none", responseToUse |-> Null,
   excelAttachments |-> Arr(<<>>), botMsg |-> Undefined, error |-> Null,
   delsPending |-> {},
   \* history of the turn, for the properties: the inbound message had no
   \* media; the previous UserSays call rejected; files.create calls issued;
   \* ids they returned; previous_response_id of each responses.create
   \* issued; which call failed ("upload", "primary") and its error message;
   \* ids passed to files.del; ids whose files.del rejected; values handed
   \* to queueBotSays; another UserSays call was running when this one began;
   \* Stop was called while a responses.create call of the turn was awaited
   noMedia |-> TRUE, afterRejected |-> FALSE, uploads |-> 0, fileIds |-> <<>>,
   prevIds |-> <<>>, failedAt |-> "none", cause |-> "", delCalls |-> <<>>,
   delFailed |-> {}, sink |-> <<>>, overlaps |-> FALSE,
   stopped |-> FALSE]

\* capabilities that pass Validate: the transport mode unset or base64
CapsSet ==
  [CHATGPT_API_KEY : {Str("sk-test")},
   CHATGPT_MODEL : {Str("gpt-4o-mini")},
   CHATGPT_FILE_SEND_MODE : {Undefined, Str("base64")},
   CHATGPT_RESPOND_AS_BOTIUM_JSON : BOOLEAN]

NoProbe == [op |-> "none"]

\* the fields the constructor sets
constructed ==
  /\ openai = FALSE
  /\ fileSendMode = "null"
  /\ respondAsBotiumJson = FALSE
  /\ lastResponseId = NoId
  /\ turn = [t \in Turns |-> IdleTurn]
  /\ turnNo = 0
  /\ timers = <<>>
  /\ linked = NoId
  /\ probe = NoProbe

\* constructor
Init ==
  /\ caps \in CapsSet
  /\ constructed

Settled(t) == turn[t].pc \in {"idle", "resolved", "rejected"}
\* no UserSays call is running
Quiet == \A t \in Turns : Settled(t)
TimerPending(t) == \E k \in 1..Len(timers) : timers[k] = t

(***************************************************************************)
(* Validate: what it throws for the capabilities c, or Returned.           *)
(***************************************************************************)
Returned == [t |-> "returned"]
Throw(message) == [t |-> "throw", v |-> message]

\* Validate without the test of the transport mode
ValidateRequiredOnly(c) ==
  IF ~Truthy(c.CHATGPT_API_KEY) THEN Throw("CHATGPT_API_KEY capability required")
  ELSE IF ~Truthy(c.CHATGPT_MODEL) THEN Throw("CHATGPT_MODEL capability required")
  ELSE Returned

ValidateCaps(c) ==
  IF ~Truthy(c.CHATGPT_API_KEY) THEN Throw("CHATGPT_API_KEY capability required")
  ELSE IF ~Truthy(c.CHATGPT_MODEL) THEN Throw("CHATGPT_MODEL capability required")
  ELSE IF Truthy(c.CHATGPT_FILE_SEND_MODE)
          /\ toLowerCase(String(c.CHATGPT_FILE_SEND_MODE)) \notin {"base64", "upload"}
  THEN Throw("CHATGPT_FILE_SEND_MODE must be \"base64\" or \"upload\", got \""
               \o String(c.CHATGPT_FILE_SEND_MODE) \o "\"")
  ELSE Returned

\* capabilities as a configuration file can give them: each required one
\* missing, empty or given; the transport mode missing, null, empty, one of
\* the two modes in some spelling, or something else
AnyCapsSet ==
  [CHATGPT_API_KEY : {Undefined, Str(""), Str("sk-test")},
   CHATGPT_MODEL : {Undefined, Str(""), Str("gpt-4o-mini")},
   CHATGPT_FILE_SEND_MODE :
     {Undefined, Null, Str(""), Str("base64"), Str("BASE64"), Str("upload"),
      Str("Upload"), Str("UPLOAD"), Str("inline"), Str("Inline"), Str("auto"),
      Str("none")},
   CHATGPT_RESPOND_AS_BOTIUM_JSON : {FALSE}]

(***************************************************************************)
(* maskBase64InObject called on a string.                                  *)
(***************************************************************************)
Masking(str) == [op |-> "maskBase64InObject", arg |-> str]

maskBase64 ==
  /\ probe.op = "maskBase64InObject" /\ "out" \notin DOMAIN probe
  /\ probe' = [op |-> probe.op, arg |-> probe.arg, out |-> maskBase64InString(probe.arg)]
  /\ UNCHANGED <<connector, lastResponseId, turn, turnNo, timers, linked>>

\* maskBase64InObject called on an object { [key]: str }
MaskingField(key, str) == [op |-> "maskBase64InObject", key |-> key, arg |-> str]

maskBase64Field ==
  /\ probe.op = "maskBase64InObject" /\ "key" \in DOMAIN probe
  /\ "out" \notin DOMAIN probe
  /\ probe' = [op |-> probe.op, key |-> probe.key, arg |-> probe.arg,
               out |-> maskField(probe.key, probe.arg)]
  /\ UNCHANGED <<connector, lastResponseId, turn, turnNo, timers, linked>>

(***************************************************************************)
(* Lifecycle hooks.                                                        *)
(***************************************************************************)
\* the host calls Validate on the connector it constructed
Validate ==
  /\ probe = NoProbe
  /\ probe' = [op |-> "Validate", out |-> ValidateCaps(caps)]
  /\ UNCHANGED <<connector, lastResponseId, turn, turnNo, timers, linked>>

Build ==
  /\ openai' = TRUE
  /\ fileSendMode' =
       IF toLowerCase(String(IF Truthy(caps.CHATGPT_FILE_SEND_MODE)
                             THEN caps.CHATGPT_FILE_SEND_MODE ELSE Str("upload")))
          = "upload"
       THEN "upload" ELSE "base64"
  /\ respondAsBotiumJson' = caps.CHATGPT_RESPOND_AS_BOTIUM_JSON
  /\ UNCHANGED <<probe, caps, lastResponseId, turn, turnNo, timers, linked>>

\* the turns as Stop leaves them: nothing of a turn is changed (its history
\* notes the call when a responses.create call of the turn is awaited)
stopNoted ==
  [t \in Turns |->
     [turn[t] EXCEPT !.stopped = @ \/ turn[t].pc \in {"primary", "followup"}]]

Start ==
  /\ lastResponseId' = NoId
  /\ linked' = NoId
  /\ UNCHANGED <<probe, connector, turn, turnNo, timers>>

\* Stop without the reset of this.lastResponseId
StopKeepsId ==
  /\ linked' = NoId
  /\ turn' = stopNoted
  /\ UNCHANGED <<probe, connector, lastResponseId, turnNo, timers>>

Stop ==
  /\ lastResponseId' = NoId
  /\ linked' = NoId
  /\ turn' = stopNoted
  /\ UNCHANGED <<probe, connector, turnNo, timers>>

\* Clean clearing the timers that are set
CleanCancels ==
  /\ openai' = FALSE
  /\ timers' = <<>>
  /\ UNCHANGED <<probe, caps, fileSendMode, respondAsBotiumJson, lastResponseId, turn,
                 turnNo, linked>>

Clean ==
  /\ openai' = FALSE
  /\ UNCHANGED <<probe, caps, fileSendMode, respondAsBotiumJson, lastResponseId, turn,
                 turnNo, timers, linked>>

(***************************************************************************)
(* UserSays.                                                               *)
(***************************************************************************)
\* buildUserContent runs on from attachment i: it stops at an upload
\* (files.create issued) or returns the content.
continueBuild(tr, i, content) ==
  LET b == buildUserContent(tr.msg.media, i, content, fileSendMode) IN
  IF b.upload
  THEN [tr EXCEPT !.pc = "uploading", !.idx = b.idx, !.content = b.content,
                  !.uploads = @ + 1]
  ELSE [tr EXCEPT !.pc = "built", !.idx = b.idx, !.content = b.content]

\* cleanup reached on the success path only
cleanupOnSuccess(tr) ==
  IF Len(tr.uploadedFileIds) > 0 /\ tr.error = Null
  THEN [tr EXCEPT !.pc = "deleting", !.delCalls = tr.uploadedFileIds,
                  !.delsPending = {tr.uploadedFileIds[k] : k \in 1..Len(tr.uploadedFileIds)}]
  ELSE [tr EXCEPT !.pc = IF tr.error = Null THEN "resolved" ELSE "rejected"]

\* the finally block with the uploaded ids kept on the connector object,
\* one list for all of its UserSays calls
cleanupShared(tr) ==
  LET all == turn[1].uploadedFileIds \o turn[2].uploadedFileIds IN
  IF Len(all) > 0
  THEN [tr EXCEPT !.pc = "deleting", !.delCalls = all,
                  !.delsPending = {all[k] : k \in 1..Len(all)}]
  ELSE [tr EXCEPT !.pc = IF tr.error = Null THEN "resolved" ELSE "rejected"]

\* the finally block: files.del for every uploaded id, or settle at once
cleanup(tr) ==
  IF Len(tr.uploadedFileIds) > 0
  THEN [tr EXCEPT !.pc = "deleting", !.delCalls = tr.uploadedFileIds,
                  !.delsPending = {tr.uploadedFileIds[k] : k \in 1..Len(tr.uploadedFileIds)}]
  ELSE [tr EXCEPT !.pc = IF tr.error = Null THEN "resolved" ELSE "rejected"]

\* the primary response parsed even when there is a follow-up response
finishTurnFromPrimary(tr, followUpResponse) ==
  LET responseToUse == tr.response
      parsed == parseOutput(responseToUse, respondAsBotiumJson)
      botMsg == buildBotMsg(responseToUse, parsed.assistantText, parsed.botiumJson,
                            tr.excelAttachments)
  IN cleanup([tr EXCEPT !.response = Null, !.responseToUse = responseToUse,
                        !.botMsg = botMsg, !.request = Null])

\* the sink called with the message where the timer is set
finishTurnInline(tr, followUpResponse) ==
  LET responseToUse == IF followUpResponse # Null THEN followUpResponse ELSE tr.response
      parsed == parseOutput(responseToUse, respondAsBotiumJson)
      botMsg == buildBotMsg(responseToUse, parsed.assistantText, parsed.botiumJson,
                            tr.excelAttachments)
  IN cleanup([tr EXCEPT !.response = Null, !.responseToUse = responseToUse,
                        !.botMsg = botMsg, !.request = Null,
                        !.sink = IF botMsg # Undefined THEN Append(@, botMsg) ELSE @])

\* lines 630-686 and the finally block: parse the response used, queue the
\* outbound message, clean up
finishTurn(tr, followUpResponse) ==
  LET responseToUse == IF followUpResponse # Null THEN followUpResponse ELSE tr.response
      parsed == parseOutput(responseToUse, respondAsBotiumJson)
      botMsg == buildBotMsg(responseToUse, parsed.assistantText, parsed.botiumJson,
                            tr.excelAttachments)
  IN cleanup([tr EXCEPT !.response = Null, !.responseToUse = responseToUse,
                        !.botMsg = botMsg, !.request = Null])

\* setTimeout reached whether or not a message was built
scheduleAlways(t, tr) == Append(timers, t)

\* setTimeout(() => this.queueBotSays(botMsg), 0), when a message was built
schedule(t, tr) == IF tr.botMsg # Undefined THEN Append(timers, t) ELSE timers

\* The host calls UserSays(msg): the call runs up to its first await.
UserSays(t, msg) ==
  /\ openai
  /\ Settled(t) /\ ~TimerPending(t)
  /\ turnNo' = turnNo + 1
  /\ turn' = [turn EXCEPT ![t] =
       continueBuild([IdleTurn EXCEPT !.n = turnNo + 1, !.msg = msg,
                                      !.noMedia = (msg.media = <<>>),
                                      !.afterRejected = (turn[t].pc = "rejected"),
                                      !.overlaps = \E u \in Turns \ {t} : ~Settled(u)], 1,
                     IF msg.messageText # "" THEN <<InputText(msg.messageText)>>
                     ELSE <<>>)]
  /\ UNCHANGED <<probe, connector, lastResponseId, timers, linked>>

\* files.create resolves with a file object
UploadOk(t) ==
  /\ turn[t].pc = "uploading"
  /\ LET tr == turn[t]
         id == FileId(tr.n, tr.uploads)
     IN turn' = [turn EXCEPT ![t] =
          IF id # NoId
          THEN continueBuild([tr EXCEPT !.uploadedFileIds = Append(@, id),
                                        !.fileIds = Append(@, id)],
                             tr.idx + 1, Append(tr.content, InputImageFile(id)))
          ELSE continueBuild(tr, tr.idx + 1, tr.content)]
  /\ UNCHANGED <<probe, connector, lastResponseId, turnNo, timers, linked>>

\* a failed upload logged and the image left out of the content
UploadFailSkips(t, e) ==
  /\ turn[t].pc = "uploading"
  /\ turn' = [turn EXCEPT ![t] = continueBuild(@, @.idx + 1, @.content)]
  /\ UNCHANGED <<probe, connector, lastResponseId, turnNo, timers, linked>>

\* files.create (or toFile) rejects: buildUserContent throws, and the throw
\* leaves UserSays before its try block is entered
UploadFail(t, e) ==
  /\ turn[t].pc = "uploading"
  /\ turn' = [turn EXCEPT ![t] =
       [@ EXCEPT !.pc = "rejected", !.failedAt = "upload", !.cause = e,
                 !.error = Str("Error uploading image to OpenAI: " \o e)]]
  /\ UNCHANGED <<probe, connector, lastResponseId, turnNo, timers, linked>>

\* callOpenAi taking the id of the response the turn holds, when it holds one
callOpenAiOwnResponse(tr, input) ==
  LET id == IF tr.response # Null THEN tr.response.id ELSE lastResponseId IN
  [tr EXCEPT !.request = [previous_response_id |-> id, input |-> input],
             !.prevIds = Append(@, id)]

\* callOpenAi up to its await: the request takes this.lastResponseId as it is now
callOpenAi(tr, input) ==
  [tr EXCEPT !.request = [previous_response_id |-> lastResponseId, input |-> input],
             !.prevIds = Append(@, lastResponseId)]

\* await buildUserContent() returns: the primary call is issued
CallPrimary(t) ==
  /\ turn[t].pc = "built"
  /\ turn' = [turn EXCEPT ![t] =
       [callOpenAi(@, <<[type |-> "message", role |-> "user", content |-> @.content]>>)
          EXCEPT !.pc = "primary", !.msg = NoMessage, !.content = <<>>]]
  /\ UNCHANGED <<probe, connector, lastResponseId, turnNo, timers, linked>>

\* the id of a response dropped when Stop was called while it was awaited
PrimaryOkUnlessStopped(t, text, output) ==
  /\ turn[t].pc = "primary"
  /\ LET result == Response(PrimaryId(turn[t].n), text, output) IN
     /\ lastResponseId' = IF result.id # NoId /\ ~turn[t].stopped
                          THEN result.id ELSE lastResponseId
     /\ linked' = result.id
     /\ turn' = [turn EXCEPT ![t] =
          [@ EXCEPT !.pc = "gotPrimary", !.response = result, !.request = Null]]
  /\ UNCHANGED <<probe, connector, turnNo, timers>>

\* responses.create of the primary call resolves: callOpenAi stores the id
PrimaryOk(t, text, output) ==
  /\ turn[t].pc = "primary"
  /\ LET result == Response(PrimaryId(turn[t].n), text, output) IN
     /\ lastResponseId' = IF result.id # NoId THEN result.id ELSE lastResponseId
     /\ linked' = result.id
     /\ turn' = [turn EXCEPT ![t] =
          [@ EXCEPT !.pc = "gotPrimary", !.response = result, !.request = Null]]
  /\ UNCHANGED <<probe, connector, turnNo, timers>>

\* the catch block throwing a fixed message
catchErrorGeneric(tr, e) ==
  cleanup([tr EXCEPT !.failedAt = "primary", !.cause = e, !.request = Null,
                     !.error = Str("Error from ChatGPT")])

\* the catch block wraps the error; the finally block follows
catchError(tr, e) ==
  cleanup([tr EXCEPT !.failedAt = "primary", !.cause = e, !.request = Null,
                     !.error = Str("Error from ChatGPT: " \o e)])

\* a failed primary call clearing the stored identifier
PrimaryFailRollback(t, e) ==
  /\ turn[t].pc = "primary"
  /\ turn' = [turn EXCEPT ![t] = catchError(@, e)]
  /\ lastResponseId' = NoId
  /\ UNCHANGED <<probe, connector, turnNo, timers, linked>>

\* a failed primary call handing the error to the sink as well as throwing it
PrimaryFailQueues(t, e) ==
  /\ turn[t].pc = "primary"
  /\ turn' = [turn EXCEPT ![t] =
       [catchError(@, e) EXCEPT !.botMsg = Obj([sender |-> Str("bot"),
                                                messageText |-> Str(e)])]]
  /\ timers' = Append(timers, t)
  /\ UNCHANGED <<probe, connector, lastResponseId, turnNo, linked>>

\* responses.create of the primary call rejects
PrimaryFail(t, e) ==
  /\ turn[t].pc = "primary"
  /\ turn' = [turn EXCEPT ![t] = catchError(@, e)]
  /\ UNCHANGED <<probe, connector, lastResponseId, turnNo, timers, linked>>

\* HandlePrimary queueing the primary response's message before the follow-up
HandlePrimaryPartial(t) ==
  /\ turn[t].pc = "gotPrimary"
  /\ LET tr == turn[t]
         scan == scanOutput(tr.response.output, 1, <<>>, <<>>)
         tr1 == [tr EXCEPT !.excelAttachments = Arr(scan.excelAttachments)]
         early == finishTurn(tr1, Null)
         tr2 == IF Len(scan.functionCallOutputs) > 0
                THEN [callOpenAi(tr1, scan.functionCallOutputs)
                        EXCEPT !.pc = "followup", !.botMsg = early.botMsg]
                ELSE early
     IN /\ turn' = [turn EXCEPT ![t] = tr2]
        /\ timers' = IF tr2.botMsg # Undefined THEN Append(timers, t) ELSE timers
  /\ UNCHANGED <<probe, connector, lastResponseId, turnNo, linked>>

\* HandlePrimary calling files.del for the uploaded ids as it issues the
\* follow-up call
HandlePrimaryEarlyCleanup(t) ==
  /\ turn[t].pc = "gotPrimary"
  /\ LET tr == turn[t]
         scan == scanOutput(tr.response.output, 1, <<>>, <<>>)
         tr1 == [tr EXCEPT !.excelAttachments = Arr(scan.excelAttachments)]
         tr2 == IF Len(scan.functionCallOutputs) > 0
                THEN [callOpenAi(tr1, scan.functionCallOutputs)
                        EXCEPT !.pc = "followup", !.delCalls = tr.uploadedFileIds]
                ELSE finishTurn(tr1, Null)
     IN /\ turn' = [turn EXCEPT ![t] = tr2]
        /\ timers' = IF tr2.pc = "followup" THEN timers ELSE schedule(t, tr2)
  /\ UNCHANGED <<probe, connector, lastResponseId, turnNo, linked>>

\* UserSays resumes with the primary response: extractExcelFilesFromResponse
\* up to the follow-up call, or through to the end of the turn
HandlePrimary(t) ==
  /\ turn[t].pc = "gotPrimary"
  /\ LET tr == turn[t]
         scan == scanOutput(tr.response.output, 1, <<>>, <<>>)
         tr1 == [tr EXCEPT !.excelAttachments = Arr(scan.excelAttachments)]
         tr2 == IF Len(scan.functionCallOutputs) > 0
                THEN [callOpenAi(tr1, scan.functionCallOutputs) EXCEPT !.pc = "followup"]
                ELSE finishTurn(tr1, Null)
     IN /\ turn' = [turn EXCEPT ![t] = tr2]
        /\ timers' = IF tr2.pc = "followup" THEN timers ELSE schedule(t, tr2)
  /\ UNCHANGED <<probe, connector, lastResponseId, turnNo, linked>>

\* the tool calls of the follow-up response run as those of the primary
\* response are, with a further call for their results
FollowUpOkAgain(t, text, output) ==
  /\ turn[t].pc = "followup"
  /\ LET result == Response(FollowUpId(turn[t].n), text, output)
         scan == scanOutput(output, 1, turn[t].excelAttachments.v, <<>>)
         tr1 == [turn[t] EXCEPT !.followUp = "ok",
                                !.excelAttachments = Arr(scan.excelAttachments)]
         tr2 == IF Len(scan.functionCallOutputs) > 0
                THEN [callOpenAi(tr1, scan.functionCallOutputs) EXCEPT !.pc = "followup"]
                ELSE finishTurn(tr1, result)
     IN /\ lastResponseId' = IF result.id # NoId THEN result.id ELSE lastResponseId
        /\ linked' = result.id
        /\ turn' = [turn EXCEPT ![t] = tr2]
        /\ timers' = IF tr2.pc = "followup" THEN timers ELSE schedule(t, tr2)
  /\ UNCHANGED <<probe, connector, turnNo>>

\* responses.create of the follow-up call resolves
FollowUpOk(t, text, output) ==
  /\ turn[t].pc = "followup"
  /\ LET result == Response(FollowUpId(turn[t].n), text, output)
         tr2 == finishTurn([turn[t] EXCEPT !.followUp = "ok"], result)
     IN /\ lastResponseId' = IF result.id # NoId THEN result.id ELSE lastResponseId
        /\ linked' = result.id
        /\ turn' = [turn EXCEPT ![t] = tr2]
        /\ timers' = schedule(t, tr2)
  /\ UNCHANGED <<probe, connector, turnNo>>

\* responses.create of the follow-up call rejects: the inner catch rethrows,
\* the outer catch of extractExcelFilesFromResponse logs and returns
FollowUpFail(t, e) ==
  /\ turn[t].pc = "followup"
  /\ LET tr2 == finishTurn([turn[t] EXCEPT !.followUp = "failed"], Null) IN
     /\ turn' = [turn EXCEPT ![t] = tr2]
     /\ timers' = schedule(t, tr2)
  /\ UNCHANGED <<probe, connector, lastResponseId, turnNo, linked>>

\* one files.del settles (a rejection is caught and logged per call); when
\* the last one has settled, Promise.all resolves and UserSays settles
DelSettle(t, id) ==
  /\ turn[t].pc = "deleting"
  /\ id \in turn[t].delsPending
  /\ turn' = [turn EXCEPT ![t] =
       [@ EXCEPT !.delsPending = @ \ {id},
                 !.pc = IF turn[t].delsPending = {id}
                        THEN (IF turn[t].error = Null THEN "resolved" ELSE "rejected")
                        ELSE "deleting"]]
  /\ UNCHANGED <<probe, connector, lastResponseId, turnNo, timers, linked>>

\* a rejected files.del rejecting Promise.all and, through it, UserSays
DelFailSurfaces(t, id, e) ==
  /\ turn[t].pc = "deleting"
  /\ id \in turn[t].delsPending
  /\ turn' = [turn EXCEPT ![t] =
       [@ EXCEPT !.delsPending = {}, !.delFailed = @ \cup {id},
                 !.pc = "rejected", !.error = Str(e)]]
  /\ UNCHANGED <<probe, connector, lastResponseId, turnNo, timers, linked>>

\* one files.del rejects: the .catch of that call logs the error and the
\* promise handed to Promise.all resolves, as for a delete that succeeded
DelFail(t, id, e) ==
  /\ turn[t].pc = "deleting"
  /\ id \in turn[t].delsPending
  /\ turn' = [turn EXCEPT ![t] =
       [@ EXCEPT !.delsPending = @ \ {id}, !.delFailed = @ \cup {id},
                 !.pc = IF turn[t].delsPending = {id}
                        THEN (IF turn[t].error = Null THEN "resolved" ELSE "rejected")
                        ELSE "deleting"]]
  /\ UNCHANGED <<probe, connector, lastResponseId, turnNo, timers, linked>>

\* the oldest timer runs: this.queueBotSays(botMsg)
TimerFire ==
  /\ timers # <<>>
  /\ LET t == Head(timers) IN
     turn' = [turn EXCEPT ![t] = [@ EXCEPT !.sink = Append(@, turn[t].botMsg)]]
  /\ timers' = Tail(timers)
  /\ UNCHANGED <<probe, connector, lastResponseId, turnNo, linked>>

(***************************************************************************)
(* The host serializes its calls: a hook or a turn starts only when no     *)
(* UserSays call is running.  The inputs of a behaviour: at most `calls`   *)
(* UserSays calls with messages from msgs; primary responses with texts    *)
(* from texts and outputs from outputs; follow-up responses with texts     *)
(* from texts and outputs from FollowUpOutputs.                            *)
(***************************************************************************)
Serial(calls, msgs, texts, outputs) ==
  \/ Quiet /\ ~openai /\ Build
  \/ Quiet /\ openai /\ Start
  \/ Quiet /\ openai /\ Stop
  \/ Quiet /\ openai /\ Clean
  \/ \E msg \in msgs : Quiet /\ turnNo < calls /\ UserSays(1, msg)
  \/ \E t \in Turns : UploadOk(t)
  \/ \E t \in Turns, e \in ErrorMessages : UploadFail(t, e)
  \/ \E t \in Turns : CallPrimary(t)
  \/ \E t \in Turns, text \in texts, output \in outputs : PrimaryOk(t, text, output)
  \/ \E t \in Turns, e \in ErrorMessages : PrimaryFail(t, e)
  \/ \E t \in Turns : HandlePrimary(t)
  \/ \E t \in Turns, text \in texts, output \in FollowUpOutputs : FollowUpOk(t, text, output)
  \/ \E t \in Turns, e \in ErrorMessages : FollowUpFail(t, e)
  \/ \E t \in Turns : \E id \in turn[t].delsPending : DelSettle(t, id)
  \/ TimerFire

\* Uploads, tool calls and cleanup: every message of MediaMessages, every
\* primary output; a response text that is empty, plain or structured.
Next == Serial(MaxTurns, MediaMessages, {TextEmpty, TextPlain, TextSix}, PrimaryOutputs)

Spec == Init /\ [][Next]_vars

\* Turn linkage over more turns: messages with at most one image, plain
\* texts, at most one tool call.
LinkMessages ==
  {[messageText |-> "What is Botium?", media |-> <<>>],
   [messageText |-> "What is Botium?", media |-> <<PngImage>>]}

NextLink ==
  Serial(MaxLinkTurns, LinkMessages, {TextPlain}, {Output(<<>>), Output(<<"excel">>)})

SpecLink == Init /\ [][NextLink]_vars

\* a remote call of turn t settles, or the code of the turn waiting for a
\* call that has settled runs on
TurnStep(t) ==
  \/ UploadOk(t)
  \/ \E e \in ErrorMessages : UploadFail(t, e)
  \/ CallPrimary(t)
  \/ \E output \in {Output(<<>>), Output(<<"excel">>)} : PrimaryOk(t, TextPlain, output)
  \/ \E e \in ErrorMessages : PrimaryFail(t, e)
  \/ HandlePrimary(t)
  \/ \E output \in FollowUpOutputs : FollowUpOk(t, TextPlain, output)
  \/ \E e \in ErrorMessages : FollowUpFail(t, e)
  \/ \E id \in turn[t].delsPending : DelSettle(t, id)

\* The same with a provider that settles every call made to it, by an
\* answer or by an error.
SpecSettling == Init /\ [][NextLink]_vars /\ WF_vars(\E t \in Turns : TurnStep(t))

\* The same with the event loop running every timer that is due: a
\* setTimeout(..., 0) callback is run once the current step has ended.
SpecTimers == Init /\ [][NextLink]_vars /\ WF_vars(TimerFire)

\* The same with a host that calls Stop without waiting for the UserSays
\* call it made: Stop also runs while a turn is under way.
NextStopping ==
  \/ NextLink
  \/ openai /\ ~Quiet /\ Stop

SpecStopping == Init /\ [][NextStopping]_vars

\* Teardown: the host builds once and serializes its turns; it calls Stop
\* and Clean only while a timer of a turn is set and has not run (the
\* connector is not built again after Clean).  The event loop runs every
\* timer that is due.
NextTeardown ==
  \/ ~openai /\ turnNo = 0 /\ Build
  \/ \E msg \in LinkMessages : Quiet /\ turnNo < MaxTurns /\ UserSays(1, msg)
  \/ \E t \in Turns : TurnStep(t)
  \/ timers # <<>> /\ Stop
  \/ timers # <<>> /\ openai /\ Clean
  \/ TimerFire

SpecTeardown == Init /\ [][NextTeardown]_vars /\ WF_vars(TimerFire)

\* Tool calls: every kind of output item, messages with at most one image,
\* plain texts.
NextTools == Serial(MaxTurns, LinkMessages, {TextPlain}, ToolOutputs)

SpecTools == Init /\ [][NextTools]_vars


\* Attachments: every message of InboundMessages, plain texts, at most one
\* tool call.
NextMedia ==
  Serial(MaxTurns, InboundMessages, {TextPlain}, {Output(<<>>), Output(<<"excel">>)})

SpecMedia == Init /\ [][NextMedia]_vars

\* Validation: any capabilities; the host validates, and builds when
\* Validate has returned.
InitAnyCaps ==
  /\ caps \in AnyCapsSet
  /\ constructed

NextValidate ==
  \/ Validate
  \/ probe = [op |-> "Validate", out |-> Returned] /\ ~openai /\ Build

SpecValidate == InitAnyCaps /\ [][NextValidate]_vars

\* Redaction: maskBase64InObject is applied to a string of Strings.
InitMasking ==
  /\ caps \in {c \in CapsSet : c.CHATGPT_FILE_SEND_MODE = Undefined
                                /\ ~c.CHATGPT_RESPOND_AS_BOTIUM_JSON}
  /\ openai = FALSE
  /\ fileSendMode = "null"
  /\ respondAsBotiumJson = FALSE
  /\ lastResponseId = NoId
  /\ turn = [t \in Turns |-> IdleTurn]
  /\ turnNo = 0
  /\ timers = <<>>
  /\ linked = NoId
  /\ probe \in {Masking(str) : str \in Strings}

NextMasking == maskBase64

SpecMasking == InitMasking /\ [][NextMasking]_vars

\* Redaction of a field: maskBase64InObject is applied to an object with
\* one key of FieldKeys holding a string of Strings.
InitFields ==
  /\ caps \in {c \in CapsSet : c.CHATGPT_FILE_SEND_MODE = Undefined
                                /\ ~c.CHATGPT_RESPOND_AS_BOTIUM_JSON}
  /\ openai = FALSE
  /\ fileSendMode = "null"
  /\ respondAsBotiumJson = FALSE
  /\ lastResponseId = NoId
  /\ turn = [t \in Turns |-> IdleTurn]
  /\ turnNo = 0
  /\ timers = <<>>
  /\ linked = NoId
  /\ probe \in {MaskingField(key, str) : key \in FieldKeys, str \in Strings}

NextFields == maskBase64Field

SpecFields == InitFields /\ [][NextFields]_vars

\* Response parsing: every response text, messages with at most one
\* attachment, at most one tool call.
NextText ==
  Serial(MaxTurns, SingleMessages, OutputTexts, {Output(<<>>), Output(<<"excel">>)})

SpecText == Init /\ [][NextText]_vars

\* The host does not wait: UserSays is called while an earlier call is
\* still running, each call in a slot of its own.  The slot taken is the
\* first one that is free.
Free(t) == Settled(t) /\ ~TimerPending(t)

NextOverlap ==
  \/ ~openai /\ Build
  \/ \E t \in Turns, msg \in LinkMessages :
       /\ turnNo < MaxTurns
       /\ \A u \in Turns : u < t => ~Free(u)
       /\ UserSays(t, msg)
  \/ \E t \in Turns : UploadOk(t)
  \/ \E t \in Turns, e \in ErrorMessages : UploadFail(t, e)
  \/ \E t \in Turns : CallPrimary(t)
  \/ \E t \in Turns, output \in {Output(<<>>), Output(<<"excel">>)} :
       PrimaryOk(t, TextPlain, output)
  \/ \E t \in Turns, e \in ErrorMessages : PrimaryFail(t, e)
  \/ \E t \in Turns : HandlePrimary(t)
  \/ \E t \in Turns : FollowUpOk(t, TextPlain, Output(<<>>))
  \/ \E t \in Turns, e \in ErrorMessages : FollowUpFail(t, e)
  \/ \E t \in Turns : \E id \in turn[t].delsPending : DelSettle(t, id)
  \/ TimerFire

SpecOverlap == Init /\ [][NextOverlap]_vars

\* Content building: one UserSays call up to its primary call, for every
\* message of ContentMessages.
NextContent ==
  \/ ~openai /\ Build
  \/ \E msg \in ContentMessages : turnNo = 0 /\ UserSays(1, msg)
  \/ \E t \in Turns : UploadOk(t)
  \/ \E t \in Turns, e \in ErrorMessages : UploadFail(t, e)
  \/ \E t \in Turns : CallPrimary(t)

SpecContent == Init /\ [][NextContent]_vars

\* Cleanup: messages with up to MaxMedia attachments, images and text
\* files, each files.del of a turn resolving or rejecting on its own.
ImageMessages ==
  [messageText : {"What is Botium?"}, media : SeqsUpTo({PngImage, TxtFile}, MaxMedia)]

NextCleanup ==
  \/ Serial(MaxTurns, ImageMessages, {TextPlain}, {Output(<<>>), Output(<<"excel">>)})
  \/ \E t \in Turns, e \in ErrorMessages : \E id \in turn[t].delsPending : DelFail(t, id, e)

SpecCleanup == Init /\ [][NextCleanup]_vars

(***************************************************************************)
(* Properties.                                                             *)
(***************************************************************************)
Ids(q) == {q[k] : k \in 1..Len(q)}
\* files.del calls of turn t that were passed id
DelCount(t, id) ==
  Cardinality({k \in 1..Len(turn[t].delCalls) : turn[t].delCalls[k] = id})
\* timers of turn t not yet run
Pending(t) == Cardinality({k \in 1..Len(timers) : timers[k] = t})
Ended(t) == turn[t].pc \in {"resolved", "rejected"}
AllDeletedOnce(t) == \A id \in Ids(turn[t].fileIds) : DelCount(t, id) = 1
SixFields == {"messageText", "buttons", "media", "attachments", "cards", "intent"}
IsSixField(parsed) == parsed.t = "object" /\ DOMAIN parsed.v = SixFields
\* the text of the response the turn parsed
UsedText(t) == turn[t].responseToUse.output_text
\* a provider call of turn t settles as failed in this step
FailedCall(t) ==
  \/ turn[t].pc = "uploading" /\ turn'[t].failedAt = "upload"
  \/ turn[t].pc = "primary" /\ turn'[t].failedAt = "primary"
  \/ turn[t].pc = "followup" /\ turn'[t].followUp = "failed"
\* the primary call of turn t is issued in this step
IssuesPrimary(t) == turn[t].pc = "built" /\ turn'[t].pc = "primary"

\* C1: in upload mode, when every upload of a turn succeeded, each file id
\* the uploads returned has been passed to exactly one files.del call by the
\* time UserSays has resolved or rejected.
C1_UploadsDeletedOnce ==
  \A t \in Turns :
    (Ended(t) /\ fileSendMode = "upload" /\ turn[t].uploads = Len(turn[t].fileIds))
      => AllDeletedOnce(t)

\* a turn that rejected after its primary call failed, with two files
\* uploaded and both deleted
C1_Witness ==
  \E t \in Turns :
    /\ turn[t].pc = "rejected" /\ turn[t].failedAt = "primary"
    /\ Len(turn[t].fileIds) = 2
    /\ Ids(turn[t].delCalls) = Ids(turn[t].fileIds)

\* C2: when an upload fails after earlier uploads of the turn succeeded, the
\* ids of the earlier uploads have been passed to files.del when the turn
\* has rejected.
C2_EarlierUploadsDeleted ==
  \A t \in Turns :
    (turn[t].pc = "rejected" /\ turn[t].failedAt = "upload")
      => \A id \in Ids(turn[t].fileIds) : DelCount(t, id) >= 1

\* C3: when the follow-up call fails, the turn rejects with an error, no
\* message is queued or delivered, and the uploaded files are deleted.
C3_FollowUpFailureFailsTurn ==
  \A t \in Turns :
    (Ended(t) /\ turn[t].followUp = "failed")
      => /\ turn[t].pc = "rejected" /\ turn[t].error # Null
         /\ turn[t].botMsg = Undefined
         /\ turn[t].sink = <<>> /\ Pending(t) = 0
         /\ AllDeletedOnce(t)

\* C4: queueBotSays runs at most once per turn: its invocations and the
\* timers still to run never number more than one.
C4_SinkAtMostOnce ==
  \A t \in Turns : Len(turn[t].sink) + Pending(t) <= 1

\* a delivered message of a turn with two tool calls and a follow-up
C4_Witness ==
  \E t \in Turns :
    /\ Len(turn[t].sink) = 1 /\ turn[t].followUp = "ok"
    /\ Len(turn[t].excelAttachments.v) = 2

\* C5 as stated: a failed primary call or upload ends with the sink invoked
\* once with the error.
C5_FailureReachesSink ==
  \A t \in Turns :
    (turn[t].pc = "rejected" /\ Pending(t) = 0)
      => turn[t].sink = <<turn[t].error>>

\* C5 amended: a failed primary call or upload ends the turn with UserSays
\* rejecting: the error is the fixed prefix followed by the original
\* message, no further provider call was issued, and the sink is not
\* invoked for the turn.
C5_FailureRejectsWithCause ==
  \A t \in Turns :
    /\ (Ended(t) /\ turn[t].failedAt = "primary")
         => /\ turn[t].pc = "rejected"
            /\ turn[t].error = Str("Error from ChatGPT: " \o turn[t].cause)
            /\ Len(turn[t].prevIds) = 1
            /\ turn[t].sink = <<>> /\ Pending(t) = 0
    /\ turn[t].failedAt = "upload"
         => /\ turn[t].pc = "rejected"
            /\ turn[t].error = Str("Error uploading image to OpenAI: " \o turn[t].cause)
            /\ turn[t].prevIds = <<>>
            /\ turn[t].sink = <<>> /\ Pending(t) = 0
    /\ turn[t].pc = "rejected" => turn[t].failedAt \in {"primary", "upload"}

\* a turn rejected by a failed primary call after an upload
C5_Witness ==
  \E t \in Turns :
    /\ turn[t].pc = "rejected" /\ turn[t].failedAt = "primary"
    /\ turn[t].error = Str("Error from ChatGPT: 429 rate limit")
    /\ Len(turn[t].fileIds) = 1

\* C6: a provider call that fails leaves lastResponseId as it was, and the
\* primary call of the turn after a rejected turn carries the id of the
\* latest successful responses.create since construction, Start or Stop:
\* when there is one, the id carried is that one and not null.
C6_FailedCallKeepsId ==
  [][\A t \in Turns :
       /\ FailedCall(t) => lastResponseId' = lastResponseId
       /\ (IssuesPrimary(t) /\ turn'[t].afterRejected)
            => /\ turn'[t].request.previous_response_id = linked
               /\ linked # NoId => turn'[t].request.previous_response_id # NoId]_vars

\* the primary call of the turn after a rejected turn is in flight and
\* carries the id of an earlier response
C6_Witness ==
  \E t \in Turns :
    /\ turn[t].pc = "primary" /\ turn[t].afterRejected
    /\ turn[t].request.previous_response_id # NoId

\* C7: every primary call carries the id returned by the latest successful
\* responses.create (primary or follow-up) since construction, Start or
\* Stop, and no id when there was none.
C7_PrimaryCarriesLatestId ==
  [][\A t \in Turns :
       IssuesPrimary(t) =>
         /\ turn'[t].request.previous_response_id = linked
         /\ turn'[t].prevIds = <<linked>>]_vars

\* the primary call of the second turn carries the id of the first turn's
\* follow-up response
C7_Witness ==
  \E t \in Turns :
    /\ turn[t].pc = "primary" /\ turn[t].n = 2
    /\ turn[t].request.previous_response_id = FollowUpId(1)

\* C8 as stated: without attachments and with strict mode off, a turn whose
\* primary call succeeded delivers exactly one message, with the output
\* text as its text.
C8_PlainTextPassthrough ==
  \A t \in Turns :
    (turn[t].pc = "resolved" /\ turn[t].noMedia /\ ~respondAsBotiumJson
       /\ Pending(t) = 0)
      => /\ Len(turn[t].sink) = 1
         /\ turn[t].sink[1].v.messageText = Str(UsedText(t))

\* C8 amended: the same when the output text of the response the turn
\* parsed is not empty.
C8_NonEmptyTextPassthrough ==
  \A t \in Turns :
    (turn[t].pc = "resolved" /\ turn[t].noMedia /\ ~respondAsBotiumJson
       /\ UsedText(t) # "")
      => /\ Len(turn[t].sink) + Pending(t) = 1
         /\ turn[t].botMsg # Undefined
         /\ turn[t].botMsg.v.messageText = Str(UsedText(t))
         /\ \A k \in 1..Len(turn[t].sink) : turn[t].sink[k] = turn[t].botMsg

\* strict mode off: a JSON-looking text was delivered as it came
C8_Witness ==
  \E t \in Turns :
    /\ turn[t].pc = "resolved" /\ turn[t].noMedia /\ ~respondAsBotiumJson
    /\ Len(turn[t].sink) = 1
    /\ turn[t].sink[1].v.messageText = Str(TextSix)

\* the structured fields other than attachments equal the payload's
SameFields(botMsg, payload) ==
  \A key \in SixFields \ {"attachments"} : botMsg.v[key] = payload.v[key]

\* strict mode, and the text the turn parsed is a six-field payload
SixFieldTurn(t) ==
  /\ respondAsBotiumJson /\ turn[t].responseToUse # Null
  /\ turn[t].botMsg # Undefined
  /\ IsSixField(JSONparse(UsedText(t)))

\* C9 as stated: the message's fields equal the payload's, and its
\* attachments are the tool's when the tool produced one, else the payload's.
C9_AttachmentsKeptWithoutArtifact ==
  \A t \in Turns :
    SixFieldTurn(t) =>
      /\ SameFields(turn[t].botMsg, JSONparse(UsedText(t)))
      /\ turn[t].botMsg.v.attachments =
           IF Len(turn[t].excelAttachments.v) > 0 THEN turn[t].excelAttachments
           ELSE JSONparse(UsedText(t)).v.attachments

\* C9 amended: the message's fields equal the payload's, and its
\* attachments are always the tool's, an empty list when the tool produced
\* none.
C9_AttachmentsAlwaysFromTool ==
  \A t \in Turns :
    SixFieldTurn(t) =>
      /\ SameFields(turn[t].botMsg, JSONparse(UsedText(t)))
      /\ turn[t].botMsg.v.attachments = turn[t].excelAttachments
      /\ \A k \in 1..Len(turn[t].sink) : turn[t].sink[k] = turn[t].botMsg

\* a six-field payload was delivered by a turn without tool artifacts: the
\* payload's attachment is gone
C9_Witness ==
  \E t \in Turns :
    /\ SixFieldTurn(t) /\ Len(turn[t].sink) = 1
    /\ turn[t].excelAttachments = Arr(<<>>)
    /\ turn[t].sink[1].v.buttons = SixPayload.v.buttons
    /\ turn[t].sink[1].v.attachments = Arr(<<>>)

\* strict mode, the turn has ended and the text it parsed is not JSON
UnparseableTurn(t) ==
  /\ respondAsBotiumJson /\ Ended(t) /\ turn[t].responseToUse # Null
  /\ JSONparse(UsedText(t)) = SyntaxError

Unset(botMsg, keys) == \A key \in keys : botMsg.v[key] = Undefined

\* C10 as stated, for a text that is not empty: the turn resolves, and one
\* message is delivered with the raw text and no structured field.
C10_FallbackHasNoStructuredField ==
  \A t \in Turns :
    (UnparseableTurn(t) /\ UsedText(t) # "" /\ Pending(t) = 0)
      => /\ turn[t].pc = "resolved"
         /\ Len(turn[t].sink) = 1
         /\ turn[t].sink[1].v.messageText = Str(UsedText(t))
         /\ Unset(turn[t].sink[1], SixFields \ {"messageText"})

\* C10 amended: when the text is not empty, the turn resolves and exactly
\* one message is emitted with the raw text, without buttons, media, cards
\* and intent, and with the tool's attachments (an empty list when none).
C10_FallbackToPlainText ==
  \A t \in Turns :
    (UnparseableTurn(t) /\ UsedText(t) # "")
      => /\ turn[t].pc = "resolved"
         /\ Len(turn[t].sink) + Pending(t) = 1
         /\ turn[t].botMsg # Undefined
         /\ turn[t].botMsg.v.messageText = Str(UsedText(t))
         /\ Unset(turn[t].botMsg, {"buttons", "media", "cards", "intent"})
         /\ turn[t].botMsg.v.attachments = turn[t].excelAttachments
         /\ \A k \in 1..Len(turn[t].sink) : turn[t].sink[k] = turn[t].botMsg

\* strict mode: the follow-up answered in plain words and the message was
\* delivered with the generated file
C10_Witness ==
  \E t \in Turns :
    /\ UnparseableTurn(t) /\ UsedText(t) = TextPlain
    /\ turn[t].followUp = "ok"
    /\ Len(turn[t].sink) = 1
    /\ Len(turn[t].sink[1].v.attachments.v) = 1

\* a spreadsheet tool call with rows that make a workbook
GoodCall(item) ==
  /\ item.type = "function_call" /\ item.name = "createExcelFile"
  /\ ArgsParse(item.arguments) # SyntaxError
  /\ IsArray(Get(ArgsParse(item.arguments), "data"))
GoodCalls(output) == SelectSeq(output, GoodCall)
\* the primary response, while turn t holds it
PrimaryGood(t) ==
  IF turn[t].response # Null THEN GoodCalls(turn[t].response.output) ELSE <<>>
SpreadsheetMime == "application/vnd.openxmlformats-officedocument.spreadsheetml.sheet"
\* one attachment per call of good, in the order of the calls
ToolAttachments(good) ==
  [k \in 1..Len(good) |->
     [name |-> "excel.xlsx", mimeType |-> SpreadsheetMime,
      base64 |-> XLSXwrite(Get(ArgsParse(good[k].arguments), "data"))]]

\* C11: when the primary response holds spreadsheet calls with well-formed
\* rows, the turn issues its follow-up call and no further provider call
\* (two responses.create in all), and the message it builds carries one
\* attachment per such call, in the order of the calls, each with the
\* spreadsheet MIME type and a base64 payload that is not empty; the sink
\* is handed that message.
C11_OneFollowUpOneAttachmentPerCall ==
  [][\A t \in Turns :
       /\ (turn[t].pc = "gotPrimary" /\ Len(PrimaryGood(t)) > 0)
            => /\ turn'[t].pc = "followup"
               /\ Len(turn'[t].prevIds) = 2
       /\ (turn[t].pc = "followup" /\ turn'[t].botMsg # Undefined)
            => /\ turn'[t].botMsg.v.attachments = Arr(ToolAttachments(PrimaryGood(t)))
               /\ \A k \in 1..Len(turn'[t].botMsg.v.attachments.v) :
                    /\ turn'[t].botMsg.v.attachments.v[k].mimeType = SpreadsheetMime
                    /\ turn'[t].botMsg.v.attachments.v[k].base64 # ""
       /\ Len(turn'[t].prevIds) <= 2
       /\ Len(turn'[t].sink) > Len(turn[t].sink)
            => turn'[t].sink = Append(turn[t].sink, turn[t].botMsg)]_vars

\* a delivered message of a turn whose primary response asked for the cubes
\* and then for the squares: two attachments, the cubes first
C11_Witness ==
  \E t \in Turns :
    /\ turn[t].followUp = "ok" /\ Len(turn[t].prevIds) = 2
    /\ Len(turn[t].sink) = 1
    /\ turn[t].sink[1].v.attachments.v =
         <<ExcelAttachment(XlsxBase64Cubes), ExcelAttachment(XlsxBase64)>>

\* the text criteria: a text/ MIME type, one of the structured-text MIME
\* types, or no MIME type and a name with a text extension
TextCriteria(a) ==
  \/ a.mimeType.major = "text"
  \/ a.mimeType \in {Mime("application", m) : m \in {"json", "xml", "yaml", "x-yaml", "csv"}}
  \/ a.mimeType = NoMime
       /\ a.name.ext \in {"txt", "md", "json", "xml", "yaml", "yml", "csv"}
\* an attachment that is neither an image by its MIME type nor a text
Skipped(a) == a.mimeType.major # "image" /\ ~TextCriteria(a)
\* the media of a message without such attachments
Kept(media) == SelectSeq(media, LAMBDA a : ~Skipped(a))

RECURSIVE Fragments(_, _, _, _)
\* the content fragments of media without skipped attachments, from
\* attachment i on, in turn n after k uploads: a data URI or the id of the
\* next upload for an image, a labelled text for any other attachment,
\* nothing for an attachment without data
Fragments(media, i, n, k) ==
  IF i > Len(media) THEN <<>>
  ELSE LET a == media[i] IN
    IF a.buffer = NoBuffer THEN Fragments(media, i + 1, n, k)
    ELSE IF isImage(a.mimeType) THEN
      IF fileSendMode = "base64"
      THEN <<InputImageUrl(a.mimeType, a.buffer)>> \o Fragments(media, i + 1, n, k)
      ELSE <<InputImageFile(FileId(n, k + 1))>> \o Fragments(media, i + 1, n, k + 1)
    ELSE <<InlineText(a)>> \o Fragments(media, i + 1, n, k)

\* the images a message has uploaded in upload mode
ImagesOf(media) ==
  Cardinality({i \in 1..Len(media) :
                 isImage(media[i].mimeType) /\ media[i].buffer # NoBuffer})

\* the request of a message whose media are kept as they are
RequestOf(msg, media, n) ==
  <<[type |-> "message", role |-> "user",
     content |-> (IF msg.messageText # "" THEN <<InputText(msg.messageText)>> ELSE <<>>)
                   \o Fragments(media, 1, n, 0)]>>

\* C12: the primary request of a turn is the request of its message with
\* the skipped attachments (no image MIME type, no text criteria) removed,
\* the uploads made are those of the images alone, and an upload failure
\* that rejects the turn is the failure of an image's upload.
C12_SkippedAttachmentLeavesNoTrace ==
  [][\A t \in Turns :
       /\ IssuesPrimary(t) =>
            /\ turn'[t].request.input =
                 RequestOf(turn[t].msg, Kept(turn[t].msg.media), turn[t].n)
            /\ turn'[t].uploads =
                 IF fileSendMode = "upload" THEN ImagesOf(Kept(turn[t].msg.media)) ELSE 0
            /\ Len(turn'[t].fileIds) = turn'[t].uploads
       /\ (turn[t].pc = "uploading" /\ turn'[t].pc = "rejected") =>
            ~Skipped(turn[t].msg.media[turn[t].idx])]_vars

\* upload mode: the content built for a PDF followed by an image holds the
\* message text and the uploaded image only
C12_Witness ==
  \E t \in Turns :
    /\ turn[t].pc = "built" /\ fileSendMode = "upload"
    /\ turn[t].msg.media = <<PdfFile, PngImage>>
    /\ turn[t].content =
         <<InputText("What is Botium?"), InputImageFile(FileId(turn[t].n, 1))>>

\* a required capability that is not given: missing, null or empty
Absent(x) == x \in {Undefined, Null, Str("")}
\* the spellings of the two transport modes: base64 (sent inline) and upload
TransportModes == {Str("base64"), Str("BASE64"), Str("upload"), Str("Upload"), Str("UPLOAD")}

C14_UploadFailureAbortsTurn ==
  [][\A t \in Turns :
       /\ turn[t].pc = "uploading" =>
            \/ Len(turn'[t].fileIds) = Len(turn[t].fileIds) + 1
            \/ /\ turn'[t].pc = "rejected" /\ turn'[t].failedAt = "upload"
               /\ turn'[t].error =
                    Str("Error uploading image to OpenAI: " \o turn'[t].cause)
               /\ turn'[t].prevIds = <<>> /\ turn'[t].request = Null
               /\ turn'[t].uploads = turn[t].uploads
               /\ turn'[t].botMsg = Undefined /\ turn'[t].sink = <<>>
               /\ \A k \in 1..Len(timers') : timers'[k] # t
       /\ (turn[t].pc = "rejected" /\ turn[t].failedAt = "upload")
            => (turn'[t] = turn[t] \/ turn'[t].n # turn[t].n)]_vars

\* the first of two images failed to upload: the turn rejected with one
\* files.create issued and no request made
C14_Witness ==
  \E t \in Turns :
    /\ turn[t].pc = "rejected" /\ turn[t].failedAt = "upload"
    /\ turn[t].msg.media = <<PngImage, PngImage>>
    /\ turn[t].uploads = 1 /\ turn[t].fileIds = <<>> /\ turn[t].prevIds = <<>>

\* the string holds letters and digits only, and at least one
AlphanumericOnly(str) ==
  /\ str.head = ""
  /\ Count(str.runs, Chars \ Alphanumeric) = 0
Length(str) == Len(Render(str))
Masked(p) == p.op = "maskBase64InObject" /\ "out" \in DOMAIN p

\* C15: for a string of letters and digits only, maskBase64InObject returns
\* the placeholder with the string's character count when the string is
\* longer than 50 characters, and the string itself when it is not.
C15_AlphanumericMaskedOver50 ==
  (Masked(probe) /\ AlphanumericOnly(probe.arg)) =>
    probe.out = IF Length(probe.arg) > 50
                THEN "[base64_data_masked:" \o ToString(Length(probe.arg)) \o "_chars]"
                ELSE Render(probe.arg)

\* a string of 60 letters came back as the placeholder naming 60
C15_Witness ==
  /\ Masked(probe)
  /\ probe.arg = [head |-> "", runs |-> <<Run("a", 60), Run("a", 0)>>]
  /\ probe.out = "[base64_data_masked:60_chars]"

\* the response turn t parsed has text, or a payload parsed in strict mode
HasContent(t) ==
  \/ UsedText(t) # ""
  \/ /\ respondAsBotiumJson
     /\ JSONparse(UsedText(t)) # SyntaxError
     /\ JSONparse(UsedText(t)).t \in {"object", "array"}

\* C16: a turn that got as far as parsing has parsed the follow-up response
\* when that call succeeded and the primary response otherwise; it queues
\* one message for the sink when that response has text or a parsed
\* payload, and nothing otherwise, whatever the tool calls produced.
C16_EmitsIffContent ==
  \A t \in Turns :
    turn[t].responseToUse # Null =>
      /\ turn[t].responseToUse.id =
           IF turn[t].followUp = "ok" THEN FollowUpId(turn[t].n) ELSE PrimaryId(turn[t].n)
      /\ turn[t].botMsg # Undefined <=> HasContent(t)
      /\ Len(turn[t].sink) + Pending(t) = IF HasContent(t) THEN 1 ELSE 0
      /\ \A k \in 1..Len(turn[t].sink) : turn[t].sink[k] # Undefined

\* a turn whose tool call produced a spreadsheet and whose follow-up
\* response has no text resolved with nothing queued or delivered
C16_Witness ==
  \E t \in Turns :
    /\ turn[t].pc = "resolved" /\ turn[t].followUp = "ok"
    /\ Len(turn[t].excelAttachments.v) = 1
    /\ UsedText(t) = ""
    /\ turn[t].botMsg = Undefined /\ turn[t].sink = <<>> /\ Pending(t) = 0

\* C17: every message handed to the sink with buttons, media, attachments,
\* cards or intent set has a text that is defined.
C17_TextWheneverStructured ==
  \A t \in Turns : \A k \in 1..Len(turn[t].sink) :
    (\E key \in SixFields \ {"messageText"} : turn[t].sink[k].v[key] # Undefined)
      => turn[t].sink[k].v.messageText # Undefined

\* one tool-result item per call of good, in the order of the calls
ToolResults(good) ==
  [k \in 1..Len(good) |->
     [type |-> "function_call_output", call_id |-> good[k].call_id, output |-> ""]]

\* C18: when UserSays resumes with the primary response it issues the
\* follow-up call exactly if a spreadsheet call of that response ran; the
\* call's input is one tool-result item per such call, in call order, with
\* an empty output, and its previous_response_id is the primary response's
\* id.  Otherwise (no tool call, calls of other tools, calls that failed)
\* the turn goes on without error and without a second call.  No other
\* step of a turn issues a call but the one that issues the primary.
C18_FollowUpIffToolResult ==
  [][\A t \in Turns :
       /\ turn[t].pc = "gotPrimary" =>
            /\ turn'[t].pc = "followup" <=> Len(PrimaryGood(t)) > 0
            /\ turn'[t].pc = "followup" =>
                 /\ turn'[t].request.input = ToolResults(PrimaryGood(t))
                 /\ turn'[t].request.previous_response_id = turn[t].response.id
                 /\ turn'[t].prevIds = Append(turn[t].prevIds, turn[t].response.id)
            /\ turn'[t].pc # "followup" =>
                 /\ turn'[t].pc \in {"deleting", "resolved"}
                 /\ turn'[t].error = Null
                 /\ turn'[t].prevIds = turn[t].prevIds
       /\ Len(turn'[t].prevIds) > Len(turn[t].prevIds)
            => turn[t].pc \in {"built", "gotPrimary"}]_vars

\* the follow-up call is in flight after a primary response that asked for
\* another tool and then for a spreadsheet: one tool result, for the second
\* call
C18_Witness ==
  \E t \in Turns :
    /\ turn[t].pc = "followup"
    /\ turn[t].response.output = Output(<<"other", "cubes">>)
    /\ turn[t].request.input =
         <<[type |-> "function_call_output", call_id |-> 2, output |-> ""]>>
    /\ turn[t].request.previous_response_id = PrimaryId(turn[t].n)

\* a spreadsheet tool call that fails when run: its arguments are not JSON,
\* or hold no rows to make a workbook of
FailingCall(item) ==
  /\ item.type = "function_call" /\ item.name = "createExcelFile"
  /\ \/ ArgsParse(item.arguments) = SyntaxError
     \/ ~IsArray(Get(ArgsParse(item.arguments), "data"))
CallIds(items) == {items[k].call_id : k \in 1..Len(items)}

\* C19: when a spreadsheet call of the primary response fails, UserSays goes
\* on without an error: the attachments collected are those of the calls
\* that ran, the failed call has no tool-result item, a follow-up is issued
\* exactly for the calls that ran (none when no call ran), and the turn
\* never rejects but for a failed primary call or upload.
C19_FailedToolCallDropped ==
  [][\A t \in Turns :
       /\ (turn[t].pc = "gotPrimary"
             /\ \E k \in 1..Len(turn[t].response.output) :
                   FailingCall(turn[t].response.output[k]))
            => /\ turn'[t].error = Null
               /\ turn'[t].pc \in {"followup", "deleting", "resolved"}
               /\ turn'[t].excelAttachments = Arr(ToolAttachments(PrimaryGood(t)))
               /\ turn'[t].pc = "followup" <=> Len(PrimaryGood(t)) > 0
               /\ turn'[t].pc = "followup" =>
                    /\ CallIds(turn'[t].request.input) = CallIds(PrimaryGood(t))
                    /\ \A k \in 1..Len(turn[t].response.output) :
                         FailingCall(turn[t].response.output[k]) =>
                           turn[t].response.output[k].call_id
                             \notin CallIds(turn'[t].request.input)
       /\ turn'[t].pc = "rejected" => turn'[t].failedAt \in {"primary", "upload"}]_vars

\* the follow-up call is in flight with one attachment collected, after a
\* primary response whose first spreadsheet call had no rows and whose
\* second ran
C19_Witness ==
  \E t \in Turns :
    /\ turn[t].pc = "followup"
    /\ turn[t].response.output = Output(<<"nodata", "excel">>)
    /\ turn[t].excelAttachments = Arr(<<ExcelAttachment(XlsxBase64)>>)
    /\ CallIds(turn[t].request.input) = {2}

\* the payload of a response in strict mode, Null when its text is none
PayloadOf(resp) ==
  LET parsed == JSONparse(resp.output_text) IN
  IF respondAsBotiumJson /\ parsed # SyntaxError /\ parsed.t \in {"object", "array"}
  THEN parsed ELSE Null
\* what a message takes from the response alone: its text, its structured
\* fields, the copy of the response
TextFrom(resp) ==
  IF PayloadOf(resp) # Null THEN Get(PayloadOf(resp), "messageText")
  ELSE Str(resp.output_text)
FieldFrom(resp, key) ==
  LET value == Get(PayloadOf(resp), key) IN
  IF key = "intent" THEN (IF value = Null THEN Undefined ELSE value)
  ELSE IF value.t = "array" THEN value ELSE Undefined
DerivedFrom(botMsg, resp, keys) ==
  /\ botMsg.v.messageText = TextFrom(resp)
  /\ \A key \in keys : botMsg.v[key] = FieldFrom(resp, key)
  /\ botMsg.v.sourceData.id = resp.id
  /\ botMsg.v.sourceData.output = resp.output
  /\ botMsg.v.sourceData.output_text = resp.output_text
\* the follow-up call of turn t succeeds in this step
FollowUpSucceeds(t) == turn[t].pc = "followup" /\ turn'[t].followUp = "ok"
\* turn t goes on from its primary response without a follow-up call
NoFollowUp(t) == turn[t].pc = "gotPrimary" /\ turn'[t].pc # "followup"
\* the message turn t builds in this step is made from resp, in its fields keys
BuiltFrom(t, resp, keys) ==
  /\ turn'[t].responseToUse = resp
  /\ turn'[t].botMsg # Undefined => DerivedFrom(turn'[t].botMsg, resp, keys)

\* C20 as stated: the text, every structured field and the copy of the raw
\* response come from the follow-up response when that call succeeded (the
\* attachments too: they are the follow-up payload's, unset when it has
\* none), and from the primary response when no follow-up was made.
C20_AllFieldsFromResponseUsed ==
  [][\A t \in Turns :
       /\ FollowUpSucceeds(t) =>
            /\ turn'[t].responseToUse.id = FollowUpId(turn[t].n)
            /\ BuiltFrom(t, turn'[t].responseToUse, SixFields \ {"messageText"})
       /\ NoFollowUp(t) =>
            BuiltFrom(t, turn[t].response, {"buttons", "media", "cards", "intent"})]_vars

\* C20 amended: the same for the text, the buttons, media, cards and intent
\* and the copy of the raw response; the attachments are those made from the
\* tool calls of the primary response in both cases.
C20_ParsedFieldsFromResponseUsed ==
  [][\A t \in Turns :
       /\ FollowUpSucceeds(t) =>
            /\ turn'[t].responseToUse.id = FollowUpId(turn[t].n)
            /\ turn'[t].responseToUse.id # turn[t].response.id
            /\ BuiltFrom(t, turn'[t].responseToUse, {"buttons", "media", "cards", "intent"})
            /\ turn'[t].botMsg # Undefined =>
                 turn'[t].botMsg.v.attachments = Arr(ToolAttachments(PrimaryGood(t)))
       /\ NoFollowUp(t) =>
            /\ BuiltFrom(t, turn[t].response, {"buttons", "media", "cards", "intent"})
            /\ turn'[t].botMsg # Undefined =>
                 turn'[t].botMsg.v.attachments = Arr(ToolAttachments(PrimaryGood(t)))]_vars

\* strict mode: the follow-up answered with a six-field payload, and the
\* message delivered has the payload's text and buttons, the follow-up
\* response's id in its copy, and the spreadsheet as its attachment
C20_Witness ==
  \E t \in Turns :
    /\ turn[t].followUp = "ok" /\ respondAsBotiumJson
    /\ Len(turn[t].sink) = 1
    /\ turn[t].sink[1].v.messageText = Str("hi")
    /\ turn[t].sink[1].v.buttons = SixPayload.v.buttons
    /\ turn[t].sink[1].v.sourceData.id = FollowUpId(turn[t].n)
    /\ turn[t].sink[1].v.attachments = Arr(<<ExcelAttachment(XlsxBase64)>>)

\* C21: when a turn reaches its cleanup, files.del is called for every id
\* the turn uploaded, all of them before any has settled; a files.del that
\* rejects changes nothing but itself (error, message and timers stay); a
\* turn whose calls succeeded resolves and its message is delivered, and a
\* turn whose primary call failed rejects with that call's error.
C21_DeleteFailureIsSilent ==
  \A t \in Turns :
    /\ turn[t].pc = "deleting" =>
         /\ turn[t].delCalls = turn[t].fileIds
         /\ turn[t].delsPending \cup turn[t].delFailed \subseteq Ids(turn[t].fileIds)
    /\ turn[t].delFailed # {} =>
         /\ Ids(turn[t].delCalls) = Ids(turn[t].fileIds)
         /\ turn[t].pc \in {"deleting", "resolved", "rejected"}
         /\ turn[t].pc = "resolved" => turn[t].failedAt = "none" /\ turn[t].error = Null
         /\ turn[t].pc = "rejected" =>
              /\ turn[t].failedAt = "primary"
              /\ turn[t].error = Str("Error from ChatGPT: " \o turn[t].cause)
         /\ (turn[t].failedAt = "none" /\ turn[t].botMsg # Undefined) =>
              /\ Len(turn[t].sink) + Pending(t) = 1
              /\ \A k \in 1..Len(turn[t].sink) : turn[t].sink[k] = turn[t].botMsg
         /\ turn[t].failedAt = "primary" => turn[t].sink = <<>> /\ Pending(t) = 0

\* both deletes of a turn with two uploads rejected: the turn resolved and
\* its message was delivered
C21_Witness ==
  \E t \in Turns :
    /\ turn[t].pc = "resolved" /\ Len(turn[t].fileIds) = 2
    /\ turn[t].delFailed = Ids(turn[t].fileIds)
    /\ Len(turn[t].sink) = 1

\* the record of turn t before this step: fresh when the step is the call
\* of UserSays
Before(t) == IF turn'[t].n # turn[t].n THEN IdleTurn ELSE turn[t]
\* the first attachment from the i-th on that is an image with data (0: none)
NextImage(media, i) ==
  LET images == {k \in i..Len(media) :
                   media[k].mimeType.major = "image" /\ media[k].buffer # NoBuffer}
  IN IF images = {} THEN 0 ELSE CHOOSE k \in images : \A j \in images : k <= j
\* this step queues the timer of turn t
Schedules(t) == Len(timers') > Len(timers) /\ timers'[Len(timers')] = t

\* C22: the remote operations of a turn are issued in order.  A files.create
\* is issued when every earlier one of the turn has returned its id, for the
\* next image in attachment order, and before any responses.create; the
\* primary call when an upload has returned for every image; the follow-up
\* call by the step that holds the primary response; the timer when no
\* provider call is in flight and the follow-up call, if one was issued, has
\* settled; files.del when no provider call is in flight, every upload and
\* the follow-up call, if issued, has settled.
C22_RemoteCallsInOrder ==
  [][\A t \in Turns :
       LET old == Before(t)
           new == turn'[t]
       IN
       /\ new.uploads > old.uploads =>
            /\ new.uploads = old.uploads + 1
            /\ Len(new.fileIds) = old.uploads
            /\ new.idx = NextImage(new.msg.media,
                                   IF old.pc = "uploading" THEN old.idx + 1 ELSE 1)
            /\ new.prevIds = <<>> /\ new.delCalls = <<>>
       /\ Len(new.prevIds) > Len(old.prevIds) =>
            /\ Len(new.prevIds) = Len(old.prevIds) + 1
            /\ new.uploads = Len(new.fileIds)
            /\ Len(old.prevIds) = 0 =>
                 /\ new.uploads =
                      IF fileSendMode = "upload" THEN ImagesOf(old.msg.media) ELSE 0
                 /\ new.response = Null
            /\ Len(old.prevIds) = 1 =>
                 /\ old.response # Null /\ old.response.id = PrimaryId(old.n)
                 /\ old.request = Null
            /\ new.botMsg = Undefined /\ new.delCalls = <<>>
       /\ Schedules(t) =>
            /\ new.request = Null /\ Len(new.prevIds) >= 1
            /\ Len(new.prevIds) = 2 => new.followUp \in {"ok", "failed"}
       /\ new.delCalls # old.delCalls =>
            /\ new.request = Null /\ Len(new.prevIds) >= 1
            /\ new.uploads = Len(new.fileIds)
            /\ Len(new.prevIds) = 2 => new.followUp \in {"ok", "failed"}]_vars

\* a turn waits for its two deletes after two uploads, a primary call and
\* a follow-up call, with its message queued or delivered
C22_Witness ==
  \E t \in Turns :
    /\ turn[t].pc = "deleting" /\ turn[t].uploads = 2 /\ Len(turn[t].delCalls) = 2
    /\ Len(turn[t].prevIds) = 2 /\ turn[t].followUp = "ok"
    /\ Len(turn[t].sink) + Pending(t) = 1

\* what is done with an attachment: nothing without data; an image by the
\* image/ MIME type; a text by the text criteria; nothing otherwise
Disposition(a) ==
  IF a.buffer = NoBuffer THEN "skip"
  ELSE IF a.mimeType.major = "image" THEN "image"
  ELSE IF TextCriteria(a) THEN "text"
  ELSE "skip"
NotSkipped(media) == SelectSeq(media, LAMBDA a : Disposition(a) # "skip")
\* the images among the first k attachments of kept
ImageRank(kept, k) == Cardinality({j \in 1..k : Disposition(kept[j]) = "image"})
\* the text made of a text attachment: a fixed header, its name, its bytes
LabelledText(a) ==
  "File attachment (prepared, no need to download or read out)\nname:\n"
    \o a.name.stem \o "." \o a.name.ext \o "\nContent:\n" \o a.buffer
\* fragment is the one made of attachment a, the rank-th image of its turn
FragmentOf(fragment, a, fileIds, rank) ==
  IF Disposition(a) = "image"
  THEN IF fileSendMode = "base64"
       THEN fragment = [type |-> "input_image",
                        image_url |-> <<"data:", a.mimeType, ";base64,", a.buffer>>]
       ELSE fragment = [type |-> "input_image", file_id |-> fileIds[rank]]
  ELSE fragment = [type |-> "input_text", text |-> LabelledText(a)]

\* C23: the input of the primary call is one user message whose content is
\* the text fragment, present exactly when the inbound text is not empty,
\* followed by one fragment for each attachment that is not skipped, in the
\* order of the attachments; the ids returned by the uploads are in that
\* order too.
C23_ContentInArrivalOrder ==
  [][\A t \in Turns :
       IssuesPrimary(t) =>
         LET msg == turn[t].msg
             kept == NotSkipped(msg.media)
             offset == IF msg.messageText # "" THEN 1 ELSE 0
             input == turn'[t].request.input
             content == input[1].content
         IN /\ Len(input) = 1 /\ input[1].type = "message" /\ input[1].role = "user"
            /\ Len(content) = offset + Len(kept)
            /\ offset = 1 => content[1] = [type |-> "input_text", text |-> msg.messageText]
            /\ \A k \in 1..Len(kept) :
                 FragmentOf(content[offset + k], kept[k], turn[t].fileIds,
                            ImageRank(kept, k))
            /\ \A j, k \in 1..Len(turn[t].fileIds) :
                 j < k => turn[t].fileIds[j] < turn[t].fileIds[k]]_vars

\* the primary call of a message with a text file and then an image, around
\* nothing skipped: the text, the file's fragment, the image's
C23_Witness ==
  \E t \in Turns :
    /\ turn[t].pc = "primary" /\ fileSendMode = "base64"
    /\ turn[t].request.input[1].content =
         <<InputText("What is Botium?"), InputText(LabelledText(JsonFile)),
           InputImageUrl(JpgImage.mimeType, Bytes)>>

\* the text criteria with text/plain as the only text/ MIME type
PlainTextCriteria(a) ==
  \/ a.mimeType = Mime("text", "plain")
  \/ a.mimeType \in {Mime("application", m) : m \in {"json", "xml", "yaml", "x-yaml", "csv"}}
  \/ a.mimeType = NoMime
       /\ a.name.ext \in {"txt", "md", "json", "xml", "yaml", "yml", "csv"}
PlainDisposition(a) ==
  IF a.buffer = NoBuffer THEN "skip"
  ELSE IF a.mimeType.major = "image" THEN "image"
  ELSE IF PlainTextCriteria(a) THEN "text"
  ELSE "skip"
\* the primary call issued in this step by turn t treats the attachments
\* as disposed: the fragments after the text are those of the attachments
\* not skipped, an image fragment for an image and a text fragment under
\* the attachment's name for a text, and the uploads are those of the images
TreatedAs(t, disposed) ==
  LET msg == turn[t].msg
      kept == SelectSeq([k \in 1..Len(msg.media) |-> k], LAMBDA k : disposed[k] # "skip")
      offset == IF msg.messageText # "" THEN 1 ELSE 0
      content == turn'[t].request.input[1].content
  IN /\ Len(content) = offset + Len(kept)
     /\ \A k \in 1..Len(kept) :
          IF disposed[kept[k]] = "image"
          THEN content[offset + k].type = "input_image"
          ELSE /\ content[offset + k].type = "input_text"
               /\ content[offset + k].text = LabelledText(msg.media[kept[k]])
     /\ turn'[t].uploads =
          IF fileSendMode = "upload"
          THEN Cardinality({k \in 1..Len(msg.media) : disposed[k] = "image"})
          ELSE 0

\* C24 as stated: each attachment is skipped when it has no data, else an
\* image by an image/ MIME type, else a text by the MIME type text/plain,
\* by a structured-text MIME type or, without MIME type, by its extension,
\* else skipped.
C24_TextPlainOnly ==
  [][\A t \in Turns :
       IssuesPrimary(t) =>
         TreatedAs(t, [k \in 1..Len(turn[t].msg.media) |->
                         PlainDisposition(turn[t].msg.media[k])])]_vars

\* C24 amended: the same with every MIME type starting with text/ making a
\* text.
C24_TextByPrefix ==
  [][\A t \in Turns :
       IssuesPrimary(t) =>
         TreatedAs(t, [k \in 1..Len(turn[t].msg.media) |->
                         Disposition(turn[t].msg.media[k])])]_vars

\* the content built for a text extension under application/pdf followed by
\* a text/html attachment holds the message text and the second attachment
C24_Witness ==
  \E t \in Turns :
    /\ turn[t].pc = "built"
    /\ turn[t].msg.media = <<PdfAsTxt, HtmlFile>>
    /\ turn[t].content = <<InputText("What is Botium?"), InlineText(HtmlFile)>>

\* C25: a step of UserSays that sets the timer calls no sink; the sink is
\* called by a step of its own, the timer's, which takes the timer off the
\* queue and hands over the message the turn built; and a message whose
\* timer is set is in the end handed to the sink, once.
C25_DeliveredLaterExactlyOnce ==
  /\ [][\A t \in Turns :
         /\ Schedules(t) =>
              /\ \A u \in Turns : turn'[u].sink = turn[u].sink
              /\ turn'[t].sink = <<>>
         /\ turn'[t].sink # turn[t].sink /\ turn'[t].n = turn[t].n =>
              /\ timers # <<>> /\ Head(timers) = t /\ timers' = Tail(timers)
              /\ turn'[t] = [turn[t] EXCEPT !.sink = <<turn[t].botMsg>>]
              /\ turn[t].botMsg # Undefined
              /\ turn[t].pc \in {"deleting", "resolved"}
         /\ Len(turn'[t].sink) + Cardinality({k \in 1..Len(timers') : timers'[k] = t}) <= 1
       ]_vars
  /\ \A t \in Turns :
       (Pending(t) = 1) ~> (Pending(t) = 0 /\ turn[t].sink = <<turn[t].botMsg>>)

\* the message of a turn is with the sink after the turn has resolved
C25_Witness ==
  \E t \in Turns :
    /\ turn[t].pc = "resolved" /\ Pending(t) = 0
    /\ turn[t].botMsg # Undefined /\ turn[t].sink = <<turn[t].botMsg>>
    /\ Len(turn[t].uploadedFileIds) = 1

\* the ids returned by the uploads of the other UserSays calls
OtherIds(t) == UNION {Ids(turn[u].fileIds) : u \in Turns \ {t}}

\* C26: the ids a UserSays call passes to files.del are ids returned by
\* uploads of that same call, each passed once, also while another
\* UserSays call is running on the connector; none is an id returned to
\* another call.
C26_DeletesOwnIdsOnly ==
  \A t \in Turns :
    /\ Ids(turn[t].delCalls) \subseteq Ids(turn[t].fileIds)
    /\ Ids(turn[t].delCalls) \cap OtherIds(t) = {}
    /\ turn[t].delsPending \subseteq Ids(turn[t].fileIds)
    /\ \A id \in Ids(turn[t].delCalls) : DelCount(t, id) = 1

\* one call waits for the delete of the file it uploaded while another
\* call, which has uploaded a file too, waits for its primary response
C26_Witness ==
  \E t, u \in Turns :
    /\ t # u
    /\ turn[t].pc = "deleting" /\ Len(turn[t].delCalls) = 1
    /\ turn[u].pc = "primary" /\ Len(turn[u].fileIds) = 1
    /\ turn[u].delCalls = <<>>

GeneralRuleMasks(str) == maskBase64InString(str) # Render(str)

Emitted(t) == Pending(t) > 0 \/ turn[t].sink # <<>>

\* C29: a UserSays call whose message is queued for the sink or delivered
\* has no error and is running its cleanup or has resolved, whatever its
\* files.del calls do; a call that rejected has built, queued and delivered
\* no message.
C29_MessageOrErrorNotBoth ==
  \A t \in Turns :
    /\ Emitted(t) =>
         /\ turn[t].error = Null
         /\ turn[t].pc \in {"deleting", "resolved"}
         /\ turn[t].failedAt = "none"
    /\ (turn[t].pc = "rejected" \/ turn[t].error # Null) =>
         /\ ~Emitted(t)
         /\ turn[t].botMsg = Undefined

\* a call has resolved after one of its deletes was rejected, with its
\* message still waiting for the timer
C29_Witness ==
  \E t \in Turns :
    /\ turn[t].pc = "resolved" /\ turn[t].delFailed # {}
    /\ Pending(t) = 1 /\ turn[t].sink = <<>>

\* C30: a turn issues at most two responses.create calls; the step that
\* takes the follow-up response issues no call and runs no tool call,
\* whatever that response asks for, and goes on to the cleanup or the end of
\* the turn; a turn that has ended issues nothing more; and a turn whose
\* remote calls all settle ends.
C30_AtMostTwoCallsAndEnds ==
  /\ [][\A t \in Turns :
         /\ Len(turn'[t].prevIds) <= 2
         /\ turn[t].pc = "followup" =>
              /\ turn'[t].pc \in {"deleting", "resolved"}
              /\ turn'[t].prevIds = turn[t].prevIds
              /\ turn'[t].request = Null
              /\ turn'[t].excelAttachments = turn[t].excelAttachments
         /\ (Ended(t) /\ turn'[t].n = turn[t].n) =>
              /\ turn'[t].pc = turn[t].pc
              /\ turn'[t].prevIds = turn[t].prevIds
              /\ turn'[t].uploads = turn[t].uploads
              /\ turn'[t].delCalls = turn[t].delCalls
       ]_vars
  /\ \A t \in Turns : ~Settled(t) ~> Ended(t)

\* a turn has resolved after a follow-up response that asked for the
\* spreadsheet tool again: two calls made, one attachment
C30_Witness ==
  \E t \in Turns :
    /\ turn[t].pc = "resolved" /\ turn[t].followUp = "ok"
    /\ turn[t].responseToUse.output = Output(<<"excel">>)
    /\ Len(turn[t].prevIds) = 2
    /\ Len(turn[t].excelAttachments.v) = 1

\* a UserSays call ran at some time while the call of slot t, still
\* running, has been running: t began during another call, or a call with a
\* later number has begun
Overlapped(t) ==
  \/ turn[t].overlaps
  \/ \E u \in Turns \ {t} : turn[u].n > turn[t].n

\* C31: the follow-up call carries as previous_response_id the value
\* this.lastResponseId has when the call is issued.  When no other UserSays
\* call has overlapped the turn, that value is the id of the turn's own
\* primary response; when calls overlap it can be the id of a response of
\* the other call (the witness).
C31_FollowUpReadsStoredId ==
  [][\A t \in Turns :
       (turn[t].pc = "gotPrimary" /\ turn'[t].pc = "followup") =>
         /\ turn'[t].request.previous_response_id = lastResponseId
         /\ turn'[t].prevIds = Append(turn[t].prevIds, lastResponseId)
         /\ ~Overlapped(t) => lastResponseId = turn[t].response.id]_vars

\* two UserSays calls overlap and the follow-up call of one is in flight
\* with the id of the other's primary response, not that of its own
C31_Witness ==
  \E t, u \in Turns :
    /\ t # u
    /\ turn[t].pc = "followup" /\ turn[u].n # 0
    /\ turn[t].response.id = PrimaryId(turn[t].n)
    /\ turn[t].request.previous_response_id = PrimaryId(turn[u].n)

\* a responses.create call of turn t is awaited
Awaited(t) == turn[t].pc \in {"primary", "followup"}
\* Stop was called while a responses.create call of turn t was awaited
StoppedInCall(t) == turn[t].stopped
\* the step in which a responses.create call of turn t resolves
Completes(t) ==
  \/ turn[t].pc = "primary" /\ turn'[t].pc = "gotPrimary"
  \/ turn[t].pc = "followup" /\ turn'[t].followUp = "ok"
\* the response it resolves with
Completed(t) ==
  IF turn[t].pc = "primary" THEN turn'[t].response ELSE turn'[t].responseToUse

\* C32: a responses.create call that resolves stores the id of its
\* response in this.lastResponseId, also when Stop was called while the
\* call was awaited and no Start followed: the stored id is then not null
\* although Stop was the last hook called.  While no call is awaited, a
\* stored id that is null stays null (only Build, Start, Stop, Clean, the
\* timers and the steps of a turn before and after its calls can run).
C32_CompletionAfterStopStoresId ==
  [][/\ \A t \in Turns :
          Completes(t) =>
            /\ lastResponseId' = Completed(t).id
            /\ lastResponseId' # NoId
     /\ (lastResponseId = NoId /\ lastResponseId' # NoId)
          => \E t \in Turns : Awaited(t) /\ Completes(t)]_vars

\* Stop ran while the primary call was awaited, the call has resolved since
\* and the stored id is that of its response; the turn is still under way,
\* so that no Start has run (the host calls Start between turns)
C32_Witness ==
  \E t \in Turns :
    /\ StoppedInCall(t)
    /\ turn[t].pc = "gotPrimary"
    /\ turn[t].prevIds # <<NoId>>
    /\ lastResponseId = PrimaryId(turn[t].n)

\* the step in which the timer of turn t runs
Fires(t) == timers # <<>> /\ Head(timers) = t /\ timers' = Tail(timers)
\* the connector after Stop and Clean
TornDown == ~openai /\ lastResponseId = NoId

\* C33: neither Stop nor Clean touches a timer that is set.  A turn that
\* uploaded no file has resolved in the step that sets its timer, the sink
\* not yet called.  A step that clears this.openai or resets
\* this.lastResponseId leaves the timers, the messages they hold and the
\* sink as they are; the timer's callback hands the turn's message to the
\* sink whatever the state of the connector; and a timer that is set when
\* Stop and Clean have run does run: the sink gets the message after them.
C33_TeardownKeepsDelivery ==
  /\ [][/\ \A t \in Turns :
            /\ (Schedules(t) /\ turn'[t].uploadedFileIds = <<>>) =>
                 /\ turn'[t].pc = "resolved"
                 /\ turn'[t].sink = <<>>
            /\ Fires(t) =>
                 /\ turn[t].botMsg # Undefined
                 /\ turn'[t].sink = Append(turn[t].sink, turn[t].botMsg)
        /\ ((openai /\ ~openai') \/ (lastResponseId # NoId /\ lastResponseId' = NoId)) =>
             /\ timers' = timers
             /\ \A t \in Turns :
                  /\ turn'[t].botMsg = turn[t].botMsg
                  /\ turn'[t].sink = turn[t].sink
       ]_vars
  /\ \A t \in Turns :
       (Pending(t) = 1 /\ TornDown)
         ~> (Pending(t) = 0 /\ TornDown /\ turn[t].sink = <<turn[t].botMsg>>)

\* the sink has the message of a turn that uploaded no file, and Stop and
\* Clean have run: they ran while the turn's timer was set, the only time
\* the host of SpecTeardown calls them, after the response the message was
\* built from had stored its id
C33_Witness ==
  \E t \in Turns :
    /\ TornDown
    /\ turn[t].pc = "resolved" /\ turn[t].uploads = 0
    /\ turn[t].responseToUse # Null /\ turn[t].responseToUse.id # NoId
    /\ turn[t].botMsg # Undefined
    /\ Pending(t) = 0 /\ turn[t].sink = <<turn[t].botMsg>>

====
